---- MODULE Spec2Model ----
(***************************************************************************)
(* A model of the yandex-music-client library: the OAuth client            *)
(* (yamusic/client.py) with its pydantic models (yamusic/models.py), the   *)
(* marshmallow schemas (yamusic/schemas.py) and the legacy single-file     *)
(* client (yamusic.py), run against a music service that keeps playlists   *)
(* under a revision counter.                                               *)
(***************************************************************************)
EXTENDS Integers, Sequences, FiniteSets, TLC

(***************************************************************************)
(* Bounds of the model.                                                    *)
(***************************************************************************)
MaxUsers == 2
MaxKinds == 2
MaxTrackId == 2
MaxAlbumId == 2
MaxTracks == 2
MaxCalls == 2

UserIds == 1..MaxUsers
Kinds == 1..MaxKinds
TrackIds == 1..MaxTrackId
AlbumIds == 1..MaxAlbumId
CallIds == 1..MaxCalls
Titles == {"Folk", "Funk"}

(***************************************************************************)
(* Python values.  None is a record of its own where the value is an       *)
(* object, and NoneInt, an integer that no id, index or revision of the    *)
(* model takes, where the value is an Optional[int].  A call either        *)
(* returns a value or raises.                                              *)
(***************************************************************************)
NoneType == [type |-> "NoneType"]
NoneInt == 0 - 1000
NoneStr == "None"

Ok(v) == [exc |-> "none", value |-> v]
Raise(e) == [exc |-> e]

\* bool(x) of an Optional[int]
Truthy(x) == x # NoneInt /\ x # 0

\* a python list that may be None instead
ListOf(s) == [type |-> "list", items |-> s]

SeqsUpTo(S, n) == UNION {[1..k -> S] : k \in 0..n}

\* s is t with some of its elements left out
RECURSIVE IsSubsequence(_, _)
IsSubsequence(s, t) ==
    IF s = <<>> THEN TRUE
    ELSE IF t = <<>> THEN FALSE
    ELSE IF Head(s) = Head(t) THEN IsSubsequence(Tail(s), Tail(t))
    ELSE IsSubsequence(s, Tail(t))

(***************************************************************************)
(* yamusic/models.py: Track and TrackWrapper.                              *)
(***************************************************************************)
Track(id, albums) == [type |-> "Track", id |-> id, albums |-> albums]

TrackWrapper(id, album_id, track) ==
    [type |-> "TrackWrapper", id |-> id, album_id |-> album_id, track |-> track]

\* an album_id that takes the last album
album_id_last(t) ==
    IF t.type = "TrackWrapper" THEN Ok(t.album_id)
    ELSE IF t.albums = <<>> THEN Raise("IndexError")
    ELSE Ok(t.albums[Len(t.albums)])

\* Track.album_id is albums[0].id; TrackWrapper.album_id is a field
album_id(t) ==
    IF t.type = "TrackWrapper" THEN Ok(t.album_id)
    ELSE IF t.albums = <<>> THEN Raise("IndexError")
    ELSE Ok(Head(t.albums))

\* TrackWrapper.is_rich
is_rich(w) == w.track # NoneType

\* TrackWrapper.unwrap
unwrap(w) == IF ~is_rich(w) THEN Raise("ValueError") ELSE Ok(w.track)

\* an equality of track references that looks into the embedded track
PyEqDeep(a, b) ==
    IF a.type = "Track" /\ b.type = "Track" THEN a.id = b.id
    ELSE IF a.type = "TrackWrapper" /\ b.type = "TrackWrapper"
        THEN a.id = b.id /\ a.album_id = b.album_id /\ a.track = b.track
    ELSE IF a.type = "Playlist" /\ b.type = "Playlist"
        THEN a.kind = b.kind /\ a.owner = b.owner
    ELSE IF a.type = "entities.Playlist" /\ b.type = "entities.Playlist"
        THEN a.kind = b.kind
    ELSE FALSE

\* a == b for two distinct objects: each __eq__ answers NotImplemented for
\* the other class, and python then compares identities
\* Playlist of models.py compares uid = (kind, owner.uid); the attrs Playlist
\* of entities.py compares the attributes declared cmp=True, kind alone.
PyEq(a, b) ==
    IF a.type = "Track" /\ b.type = "Track" THEN a.id = b.id
    ELSE IF a.type = "TrackWrapper" /\ b.type = "TrackWrapper"
        THEN a.id = b.id /\ a.album_id = b.album_id
    ELSE IF a.type = "Playlist" /\ b.type = "Playlist"
        THEN a.kind = b.kind /\ a.owner = b.owner
    ELSE IF a.type = "entities.Playlist" /\ b.type = "entities.Playlist"
        THEN a.kind = b.kind
    ELSE FALSE

\* Track defines __hash__; TrackWrapper defines __eq__ and no __hash__, and
\* python then sets its __hash__ to None
Hashable(t) == t.type = "Track"

\* Track.__hash__
Hash(t) == t.id

(***************************************************************************)
(* Python's set of hashable objects, as the sequence its iteration yields: *)
(* the first occurrence of each element, in the order of the hash table's  *)
(* slots (hash modulo the table size; the hashes here are below 8).        *)
(***************************************************************************)
RECURSIVE FirstOccurrences(_, _)
FirstOccurrences(list, seen) ==
    IF list = <<>> THEN <<>>
    ELSE IF \E i \in 1..Len(seen) : PyEq(seen[i], Head(list))
        THEN FirstOccurrences(Tail(list), seen)
    ELSE <<Head(list)>> \o FirstOccurrences(Tail(list), Append(seen, Head(list)))

RECURSIVE SlotOrder(_, _)
SlotOrder(elems, slot) ==
    IF elems = <<>> THEN <<>>
    ELSE LET here == SelectSeq(elems, LAMBDA e : Hash(e) = slot)
             rest == SelectSeq(elems, LAMBDA e : Hash(e) # slot)
         IN here \o SlotOrder(rest, slot + 1)

\* a set that keeps every occurrence of an element
PySetOfAll(list) ==
    IF list = NoneType THEN Raise("TypeError")
    ELSE IF \E i \in 1..Len(list.items) : ~Hashable(list.items[i])
        THEN Raise("TypeError")
    ELSE Ok(list.items)

\* set(list); list is a ListOf or None
PySet(list) ==
    IF list = NoneType THEN Raise("TypeError")
    ELSE IF \E i \in 1..Len(list.items) : ~Hashable(list.items[i])
        THEN Raise("TypeError")
    ELSE Ok(SlotOrder(FirstOccurrences(list.items, <<>>), 0))

\* a - b of two sets
PySetDifference(a, b) ==
    SelectSeq(a, LAMBDA x : ~\E i \in 1..Len(b) : PyEq(x, b[i]))

(***************************************************************************)
(* json.dumps(diff, separators=(',', ':')) as the tokens of its text, and  *)
(* json.loads of such a text.                                              *)
(***************************************************************************)
Punct(c) == [k |-> "punct", s |-> c, n |-> 0]
Str(s) == [k |-> "string", s |-> s, n |-> 0]
Num(n) == IF n = NoneInt THEN [k |-> "null", s |-> "null", n |-> 0]
        ELSE [k |-> "number", s |-> "", n |-> n]

TokenValue(t) == IF t.k = "null" THEN NoneInt ELSE t.n

DumpTrack(t) ==
    <<Punct("{"), Str("id"), Punct(":"), Num(t.id), Punct(","), Str("albumid"), Punct(":"), Num(t.albumid), Punct("}")>>

RECURSIVE DumpTracks(_)
DumpTracks(tracks) ==
    IF tracks = <<>> THEN <<>>
    ELSE IF Len(tracks) = 1 THEN DumpTrack(Head(tracks))
    ELSE DumpTrack(Head(tracks)) \o <<Punct(",")>> \o DumpTracks(Tail(tracks))

json_dumps(diff) ==
    LET op == diff[1] IN
    IF op.op = "insert"
    THEN <<Punct("["), Punct("{"), Str("op"), Punct(":"), Str("insert"), Punct(","),
           Str("at"), Punct(":"), Num(op.at), Punct(","), Str("tracks"), Punct(":"), Punct("[")>>
         \o DumpTracks(op.tracks) \o <<Punct("]"), Punct("}"), Punct("]")>>
    ELSE <<Punct("["), Punct("{"), Str("op"), Punct(":"), Str("delete"), Punct(","),
           Str("from"), Punct(":"), Num(op.from), Punct(","), Str("to"), Punct(":"), Num(op.to),
           Punct("}"), Punct("]")>>

\* the track objects of a text, from token i on: one every ten tokens
RECURSIVE LoadTracks(_, _)
LoadTracks(text, i) ==
    IF text[i].s # "{" THEN <<>>
    ELSE <<[id |-> TokenValue(text[i + 3]), albumid |-> TokenValue(text[i + 7])]>>
         \o (IF text[i + 9].s = "," THEN LoadTracks(text, i + 10) ELSE <<>>)

json_loads(text) ==
    IF text[5].s = "insert"
    THEN <<[op |-> "insert", at |-> TokenValue(text[9]), tracks |-> LoadTracks(text, 14)]>>
    ELSE <<[op |-> "delete", from |-> TokenValue(text[9]), to |-> TokenValue(text[13])]>>

(***************************************************************************)
(* The state: the client's credentials, the service's playlists, the calls *)
(* made on the client and the number of requests sent so far.              *)
(***************************************************************************)
VARIABLES oauth_cred, login, server, calls, clock

vars == <<oauth_cred, login, server, calls, clock>>

\* client.py: OAuthCred = namedtuple('OAuthCred', ('access_token', 'user_id'))
OAuthCred(access_token, user_id) ==
    [type |-> "OAuthCred", access_token |-> access_token, user_id |-> user_id]

\* the access token the service issues to a user, and the user's login name
Token(uid) == uid
Login(uid) == IF uid = 1 THEN "user1" ELSE "user2"

\* all(self._oauth_cred): None is not iterable
all_cred(cred) ==
    IF cred = NoneType THEN Raise("TypeError")
    ELSE Ok(Truthy(cred.access_token) /\ Truthy(cred.user_id))

\* YaMusicClient.is_authenticated
is_authenticated(cred) == all_cred(cred)

\* the Authorization header _request adds when all(self._oauth_cred)
Authorization(cred) ==
    IF all_cred(cred) = Ok(TRUE) THEN cred.access_token ELSE NoneInt

(***************************************************************************)
(* The music service.  A playlist lives under a kind that is never used    *)
(* again after the playlist is deleted.                                    *)
(***************************************************************************)
NoPlaylist ==
    [state |-> "never", owner |-> 0, title |-> "", tracks |-> <<>>, revision |-> 0]

NewPlaylist(uid, title) ==
    [state |-> "live", owner |-> uid, title |-> title, tracks |-> <<>>, revision |-> 1]

Live(srv, uid, kind) ==
    kind \in Kinds /\ srv[kind].state = "live" /\ srv[kind].owner = uid

FreeKinds(srv) == {k \in Kinds : srv[k].state = "never"}

Min(S) == CHOOSE x \in S : \A y \in S : x <= y

\* the service takes a change only at the playlist's current revision
ServerAccepts(srv, uid, kind, revision) ==
    Live(srv, uid, kind) /\ revision = srv[kind].revision

DiffValid(tracks, op) ==
    IF op.op = "insert" THEN 0 <= op.at /\ op.at <= Len(tracks)
    ELSE 0 <= op.from /\ op.from <= op.to /\ op.to < Len(tracks)

ServerTrack(t) == [id |-> t.id, albumId |-> t.albumid]

ApplyDiff(tracks, op) ==
    IF op.op = "insert"
    THEN SubSeq(tracks, 1, op.at)
         \o [i \in 1..Len(op.tracks) |-> ServerTrack(op.tracks[i])]
         \o SubSeq(tracks, op.at + 1, Len(tracks))
    ELSE SubSeq(tracks, 1, op.from) \o SubSeq(tracks, op.to + 2, Len(tracks))

\* the status of a change-relative request, and the playlists after it
ChangeStatus(srv, uid, authorization, data, fail) ==
    IF fail THEN 500
    ELSE IF authorization # Token(uid) THEN 403
    ELSE IF ~Live(srv, uid, data.kind) THEN 404
    ELSE IF ~ServerAccepts(srv, uid, data.kind, data.revision) THEN 412
    ELSE IF ~DiffValid(srv[data.kind].tracks, json_loads(data.diff)[1]) THEN 400
    ELSE 200

ApplyChange(srv, data) ==
    [srv EXCEPT ![data.kind].tracks = ApplyDiff(@, json_loads(data.diff)[1]),
                ![data.kind].revision = @ + 1]

\* response payloads: the list of a user's playlists carries no tracks, the
\* fetch of one playlist carries them, with the full track when rich-tracks
TrackPayload(t) == [id |-> t.id, albums |-> <<[id |-> t.albumId]>>]

WrapperPayload(t, rich) ==
    IF rich THEN [id |-> t.id, albumId |-> t.albumId, track |-> TrackPayload(t)]
    ELSE [id |-> t.id, albumId |-> t.albumId]

ListPayload(srv, kind) ==
    [kind |-> kind, title |-> srv[kind].title, owner |-> [uid |-> srv[kind].owner],
     trackCount |-> Len(srv[kind].tracks), revision |-> srv[kind].revision]

DetailPayload(srv, kind, rich) ==
    [kind |-> kind, title |-> srv[kind].title, owner |-> [uid |-> srv[kind].owner],
     trackCount |-> Len(srv[kind].tracks), revision |-> srv[kind].revision,
     tracks |-> [i \in 1..Len(srv[kind].tracks) |->
                    WrapperPayload(srv[kind].tracks[i], rich)]]

RECURSIVE ListPayloads(_, _, _)
ListPayloads(srv, uid, kind) ==
    IF kind > MaxKinds THEN <<>>
    ELSE (IF Live(srv, uid, kind) THEN <<ListPayload(srv, kind)>> ELSE <<>>)
         \o ListPayloads(srv, uid, kind + 1)

(***************************************************************************)
(* yamusic/models.py: parse_obj of a response, by the aliases of to_camel. *)
(***************************************************************************)
ParseTrack(p) == Track(p.id, [i \in 1..Len(p.albums) |-> p.albums[i].id])

ParseTrackWrapper(p) ==
    TrackWrapper(p.id,
                 IF "albumId" \in DOMAIN p THEN p.albumId ELSE NoneInt,
                 IF "track" \in DOMAIN p THEN ParseTrack(p.track) ELSE NoneType)

\* a model whose tracks default to an empty list
ParsePlaylistDefaultEmpty(p) ==
    [type |-> "Playlist", kind |-> p.kind, title |-> p.title,
     track_count |-> p.trackCount, owner |-> p.owner.uid,
     tracks |-> IF "tracks" \in DOMAIN p
                THEN ListOf([i \in 1..Len(p.tracks) |-> ParseTrackWrapper(p.tracks[i])])
                ELSE ListOf(<<>>),
     revision |-> IF "revision" \in DOMAIN p THEN p.revision ELSE NoneInt]

ParsePlaylist(p) ==
    [type |-> "Playlist", kind |-> p.kind, title |-> p.title,
     track_count |-> p.trackCount, owner |-> p.owner.uid,
     tracks |-> IF "tracks" \in DOMAIN p
                THEN ListOf([i \in 1..Len(p.tracks) |-> ParseTrackWrapper(p.tracks[i])])
                ELSE NoneType,
     revision |-> IF "revision" \in DOMAIN p THEN p.revision ELSE NoneInt]

(***************************************************************************)
(* yamusic/client.py: the requests a call sends and what it ends with.     *)
(***************************************************************************)
Request(time, method, path, uid, authorization, data, status, response) ==
    [time |-> time, method |-> method, path |-> path, user_id |-> uid,
     authorization |-> authorization, data |-> data, status |-> status,
     response |-> response]

IdleCall ==
    [op |-> "none", pc |-> "idle", args |-> NoneType, user_id |-> NoneInt,
     playlist |-> NoneType, data |-> NoneType, requests |-> <<>>,
     exc |-> "none", result |-> NoneType]

Begun(op, args) == [IdleCall EXCEPT !.op = op, !.args = args]

Finished(call, exc, result, requests) ==
    [call EXCEPT !.pc = "done", !.exc = exc, !.result = result,
                 !.requests = @ \o requests]

\* a parameter left out of the call takes its default
Omitted == 0 - 2000
Default(arg, default) == IF arg = Omitted THEN default ELSE arg

\* the decorator auth_required
auth_required(cred) ==
    LET authenticated == is_authenticated(cred) IN
    IF authenticated.exc # "none" THEN Raise(authenticated.exc)
    ELSE IF ~authenticated.value THEN Raise("AuthenticationError")
    ELSE Ok(TRUE)

\* user_id = user_id or self._oauth_cred.user_id, and the check that follows
ResolveUser(cred, user_id) ==
    IF Truthy(user_id) THEN Ok(user_id)
    ELSE IF cred = NoneType THEN Raise("AttributeError")
    ELSE IF ~Truthy(cred.user_id) THEN Raise("AuthenticationError")
    ELSE Ok(cred.user_id)

\* a get_playlist that keeps a reference that holds no full track
UnwrappedLenient(playlist) ==
    IF playlist.tracks = NoneType THEN Raise("TypeError")
    ELSE Ok([playlist EXCEPT !.tracks =
                ListOf([i \in 1..Len(playlist.tracks.items) |->
                           IF is_rich(playlist.tracks.items[i])
                           THEN playlist.tracks.items[i].track
                           ELSE playlist.tracks.items[i]])])

\* playlist.tracks = [track.unwrap() for track in playlist.tracks]
Unwrapped(playlist) ==
    IF playlist.tracks = NoneType THEN Raise("TypeError")
    ELSE IF \E i \in 1..Len(playlist.tracks.items) :
                unwrap(playlist.tracks.items[i]).exc # "none"
        THEN Raise("ValueError")
    ELSE Ok([playlist EXCEPT !.tracks =
                ListOf([i \in 1..Len(playlist.tracks.items) |->
                           unwrap(playlist.tracks.items[i]).value])])

\* get_playlists: what it returns or raises, and the requests it sent
get_playlists(cred, srv, clk, user_id, fail) ==
    LET user == ResolveUser(cred, user_id) IN
    IF user.exc # "none" THEN [ret |-> Raise(user.exc), requests |-> <<>>]
    ELSE IF all_cred(cred).exc # "none"
        THEN [ret |-> Raise("TypeError"), requests |-> <<>>]
    ELSE LET payloads == ListPayloads(srv, user.value, 1)
             status == IF fail THEN 500 ELSE 200
             req == Request(clk + 1, "GET", "users/playlists/list", user.value,
                            Authorization(cred), NoneType, status,
                            IF status = 200 THEN [result |-> payloads] ELSE NoneType)
         IN IF status # 200 THEN [ret |-> Raise("HTTPError"), requests |-> <<req>>]
            ELSE [ret |-> Ok(ListOf([i \in 1..Len(payloads) |-> ParsePlaylist(payloads[i])])),
                  requests |-> <<req>>]

\* get_playlist by id
get_playlist(cred, srv, clk, playlist_id, user_id, rich_tracks, fail) ==
    LET user == ResolveUser(cred, user_id) IN
    IF user.exc # "none" THEN [ret |-> Raise(user.exc), requests |-> <<>>]
    ELSE IF all_cred(cred).exc # "none"
        THEN [ret |-> Raise("TypeError"), requests |-> <<>>]
    ELSE LET status == IF fail THEN 500
                       ELSE IF Live(srv, user.value, playlist_id) THEN 200 ELSE 404
             payload == DetailPayload(srv, playlist_id, rich_tracks)
             req == Request(clk + 1, "GET", "users/playlists", user.value,
                            Authorization(cred),
                            [kinds |-> playlist_id, rich_tracks |-> rich_tracks], status,
                            IF status = 200 THEN [result |-> <<payload>>] ELSE NoneType)
             playlist == ParsePlaylist(payload)
         IN IF status # 200 THEN [ret |-> Raise("HTTPError"), requests |-> <<req>>]
            ELSE [ret |-> IF rich_tracks THEN Unwrapped(playlist) ELSE Ok(playlist),
                  requests |-> <<req>>]

\* tracks = set(tracks) - set(playlist.tracks)
DropDuplicates(tracks, playlist_tracks) ==
    LET mine == PySet(ListOf(tracks))
        present == PySet(playlist_tracks)
    IN IF mine.exc # "none" THEN Raise(mine.exc)
       ELSE IF present.exc # "none" THEN Raise(present.exc)
       ELSE Ok(PySetDifference(mine.value, present.value))

\* [{'id': track.id, 'albumid': track.album_id} for track in tracks]
DiffTracks(tracks) ==
    IF \E i \in 1..Len(tracks) : album_id(tracks[i]).exc # "none"
    THEN Raise("IndexError")
    ELSE Ok([i \in 1..Len(tracks) |->
                [id |-> tracks[i].id, albumid |-> album_id(tracks[i]).value]])

\* a revision kept from an earlier call on the same playlist
cur_revision_cached(playlist) ==
    Min({playlist.revision} \cup
        {calls[d].playlist.revision :
            d \in {e \in CallIds : /\ calls[e].playlist # NoneType
                                   /\ calls[e].playlist.kind = playlist.kind}})

\* cur_revision = playlist.revision
cur_revision(playlist) == playlist.revision

Stopped(exc, requests, playlist) ==
    [exc |-> exc, requests |-> requests, playlist |-> playlist, data |-> NoneType]

\* an add_tracks_to_playlist that leaves out of the diff what it cannot build
\* and sends the change all the same
add_tracks_to_playlist_lenient(cred, srv, clk, playlist_id, tracks, at_position, ignore_duplicates, fail) ==
    LET gate == auth_required(cred) IN
    IF gate.exc # "none" THEN Stopped(gate.exc, <<>>, NoneType)
    ELSE
    LET got == get_playlist(cred, srv, clk, playlist_id, NoneInt, FALSE, fail) IN
    IF got.ret.exc # "none" THEN Stopped(got.ret.exc, got.requests, NoneType)
    ELSE
    LET playlist == got.ret.value
        entries == DiffTracks(tracks)
    IN [exc |-> "none", requests |-> got.requests, playlist |-> playlist,
        data |-> [kind |-> playlist_id,
                  diff |-> json_dumps(<<[op |-> "insert", at |-> at_position,
                                         tracks |-> IF entries.exc # "none" THEN <<>>
                                                    ELSE entries.value]>>),
                  revision |-> cur_revision(playlist)]]

\* add_tracks_to_playlist up to its POST: the fetch and the diff
add_tracks_to_playlist(cred, srv, clk, playlist_id, tracks, at_position, ignore_duplicates, fail) ==
    LET gate == auth_required(cred) IN
    IF gate.exc # "none" THEN Stopped(gate.exc, <<>>, NoneType)
    ELSE
    LET got == get_playlist(cred, srv, clk, playlist_id, NoneInt, FALSE, fail) IN
    IF got.ret.exc # "none" THEN Stopped(got.ret.exc, got.requests, NoneType)
    ELSE
    LET playlist == got.ret.value
        kept == IF ignore_duplicates THEN DropDuplicates(tracks, playlist.tracks)
                ELSE Ok(tracks)
    IN
    IF kept.exc # "none" THEN Stopped(kept.exc, got.requests, playlist)
    ELSE
    LET entries == DiffTracks(kept.value) IN
    IF entries.exc # "none" THEN Stopped(entries.exc, got.requests, playlist)
    ELSE [exc |-> "none", requests |-> got.requests, playlist |-> playlist,
          data |-> [kind |-> playlist_id,
                    diff |-> json_dumps(<<[op |-> "insert", at |-> at_position,
                                           tracks |-> entries.value]>>),
                    revision |-> cur_revision(playlist)]]

\* delete_tracks_from_playlist up to its POST
delete_tracks_from_playlist(cred, srv, clk, playlist_id, from_track, to_track, fail) ==
    LET gate == auth_required(cred) IN
    IF gate.exc # "none" THEN Stopped(gate.exc, <<>>, NoneType)
    ELSE
    LET got == get_playlist(cred, srv, clk, playlist_id, NoneInt, FALSE, fail) IN
    IF got.ret.exc # "none" THEN Stopped(got.ret.exc, got.requests, NoneType)
    ELSE [exc |-> "none", requests |-> got.requests, playlist |-> got.ret.value,
          data |-> [kind |-> playlist_id,
                    diff |-> json_dumps(<<[op |-> "delete", from |-> from_track,
                                           to |-> to_track]>>),
                    revision |-> cur_revision(got.ret.value)]]

\* self._request('POST', ..., path, data=data) of a change, with the
\* service's answer; a status that is not 2xx raises HTTPError
Post(call, cred, srv, clk, fail) ==
    IF all_cred(cred).exc # "none"
    THEN [call |-> Finished(call, "TypeError", NoneType, <<>>), server |-> srv, clock |-> clk]
    ELSE LET status == ChangeStatus(srv, call.user_id, Authorization(cred), call.data, fail)
             req == Request(clk + 1, "POST", "users/playlists/change-relative",
                            call.user_id, Authorization(cred), call.data, status, NoneType)
         IN [call |-> Finished(call, IF status = 200 THEN "none" ELSE "HTTPError",
                               NoneType, <<req>>),
             server |-> IF status = 200 THEN ApplyChange(srv, call.data) ELSE srv,
             clock |-> clk + 1]

\* a client that answers a refused change by fetching the playlist again
\* and sending the change at the new revision
change_relative_retry(call, fail) ==
    LET first == Post(call, oauth_cred, server, clock, fail)
        again == get_playlist(oauth_cred, first.server, first.clock, call.data.kind,
                              NoneInt, FALSE, FALSE)
    IN IF first.call.exc # "HTTPError" \/ again.ret.exc # "none" THEN first
       ELSE Post([first.call EXCEPT !.pc = "fetched", !.exc = "none",
                                    !.requests = @ \o again.requests,
                                    !.playlist = again.ret.value,
                                    !.data.revision = again.ret.value.revision],
                 oauth_cred, first.server, first.clock + 1, FALSE)

\* a client that answers a refused change by sending it once more
change_relative_resend(call, fail) ==
    LET first == Post(call, oauth_cred, server, clock, fail) IN
    IF first.call.exc # "HTTPError" THEN first
    ELSE Post([first.call EXCEPT !.pc = "fetched", !.exc = "none"],
              oauth_cred, first.server, first.clock, FALSE)

\* the mutation ends with its one POST, whatever the answer
change_relative(call, fail) == Post(call, oauth_cred, server, clock, fail)

\* create_playlist
create_playlist(cred, srv, clk, title, visibility, fail, with_tracks) ==
    LET gate == auth_required(cred) IN
    IF gate.exc # "none"
    THEN [exc |-> gate.exc, result |-> NoneType, requests |-> <<>>, server |-> srv]
    ELSE
    LET uid == cred.user_id
        free == FreeKinds(srv)
        status == IF fail \/ free = {} THEN 500
                  ELSE IF Authorization(cred) # Token(uid) THEN 403 ELSE 200
        created == [srv EXCEPT ![Min(free)] = NewPlaylist(uid, title)]
        payload == IF with_tracks THEN DetailPayload(created, Min(free), FALSE)
                   ELSE ListPayload(created, Min(free))
        req == Request(clk + 1, "POST", "users/playlists/create", uid, Authorization(cred),
                       [title |-> title, visibility |-> visibility], status,
                       IF status = 200 THEN [result |-> payload] ELSE NoneType)
    IN IF status # 200
       THEN [exc |-> "HTTPError", result |-> NoneType, requests |-> <<req>>, server |-> srv]
       ELSE [exc |-> "none", result |-> ParsePlaylist(payload), requests |-> <<req>>,
             server |-> created]

\* delete_playlist
delete_playlist(cred, srv, clk, playlist_id, fail) ==
    LET gate == auth_required(cred) IN
    IF gate.exc # "none"
    THEN [exc |-> gate.exc, result |-> NoneType, requests |-> <<>>, server |-> srv]
    ELSE
    LET uid == cred.user_id
        status == IF fail THEN 500
                  ELSE IF Authorization(cred) # Token(uid) THEN 403
                  ELSE IF ~Live(srv, uid, playlist_id) THEN 404 ELSE 200
        req == Request(clk + 1, "POST", "users/playlists/delete", uid, Authorization(cred),
                       [kind |-> playlist_id], status, NoneType)
    IN [exc |-> IF status = 200 THEN "none" ELSE "HTTPError", result |-> NoneType,
        requests |-> <<req>>,
        server |-> IF status = 200 THEN [srv EXCEPT ![playlist_id].state = "deleted"]
                   ELSE srv]

\* rename_playlist
rename_playlist(cred, srv, clk, playlist_id, title, fail) ==
    LET gate == auth_required(cred) IN
    IF gate.exc # "none"
    THEN [exc |-> gate.exc, result |-> NoneType, requests |-> <<>>, server |-> srv]
    ELSE
    LET uid == cred.user_id
        status == IF fail THEN 500
                  ELSE IF Authorization(cred) # Token(uid) THEN 403
                  ELSE IF ~Live(srv, uid, playlist_id) THEN 404 ELSE 200
        req == Request(clk + 1, "POST", "users/playlists/name", uid, Authorization(cred),
                       [kind |-> playlist_id, value |-> title], status, NoneType)
    IN [exc |-> IF status = 200 THEN "none" ELSE "HTTPError", result |-> NoneType,
        requests |-> <<req>>,
        server |-> IF status = 200 THEN [srv EXCEPT ![playlist_id].title = title]
                   ELSE srv]

\* the answers of the token service: a refusal, or a body that may lack a
\* field or carry a uid that is no number
JsonNumber(n) == [numeric |-> TRUE, value |-> n]
JsonText == [numeric |-> FALSE, value |-> 0]

AuthResponses(uid) ==
    {[status |-> 400, body |-> NoneType],
     [status |-> 200, body |-> [access_token |-> Token(uid), uid |-> JsonNumber(uid)]],
     [status |-> 200, body |-> [uid |-> JsonNumber(uid)]],
     [status |-> 200, body |-> [access_token |-> Token(uid)]],
     [status |-> 200, body |-> [access_token |-> Token(uid), uid |-> JsonText]]}

\* int(resp.get('uid'))
IntOfUid(body) ==
    IF "uid" \notin DOMAIN body THEN Raise("TypeError")
    ELSE IF ~body.uid.numeric THEN Raise("ValueError")
    ELSE Ok(body.uid.value)

\* an auth that forgets the client's credentials before it asks for new ones
auth_forgetful(cred, lg, clk, new_login, resp) ==
    IF all_cred(cred).exc # "none"
    THEN [exc |-> "TypeError", cred |-> cred, login |-> lg, requests |-> <<>>]
    ELSE
    LET req == Request(clk + 1, "POST", "1/token", NoneInt, Authorization(cred),
                       [username |-> new_login], resp.status, resp.body)
        access_token == IF "access_token" \in DOMAIN resp.body
                        THEN resp.body.access_token ELSE NoneInt
        user_id == IntOfUid(resp.body)
        none == OAuthCred(NoneInt, NoneInt)
    IN IF resp.status # 200
       THEN [exc |-> "AuthenticationError", cred |-> none, login |-> NoneStr, requests |-> <<req>>]
       ELSE IF user_id.exc = "TypeError"
       THEN [exc |-> "TypeError", cred |-> none, login |-> NoneStr, requests |-> <<req>>]
       ELSE IF user_id.exc = "ValueError" \/ access_token = NoneInt
       THEN [exc |-> "ResponseFormatError", cred |-> none, login |-> NoneStr, requests |-> <<req>>]
       ELSE [exc |-> "none", cred |-> OAuthCred(access_token, user_id.value),
             login |-> new_login, requests |-> <<req>>]

\* auth
auth(cred, lg, clk, new_login, resp) ==
    IF all_cred(cred).exc # "none"
    THEN [exc |-> "TypeError", cred |-> cred, login |-> lg, requests |-> <<>>]
    ELSE
    LET req == Request(clk + 1, "POST", "1/token", NoneInt, Authorization(cred),
                       [username |-> new_login], resp.status, resp.body)
        access_token == IF "access_token" \in DOMAIN resp.body
                        THEN resp.body.access_token ELSE NoneInt
        user_id == IntOfUid(resp.body)
    IN IF resp.status # 200
       THEN [exc |-> "AuthenticationError", cred |-> cred, login |-> lg, requests |-> <<req>>]
       ELSE IF user_id.exc = "TypeError"
       THEN [exc |-> "TypeError", cred |-> cred, login |-> lg, requests |-> <<req>>]
       ELSE IF user_id.exc = "ValueError" \/ access_token = NoneInt
       THEN [exc |-> "ResponseFormatError", cred |-> cred, login |-> lg, requests |-> <<req>>]
       ELSE [exc |-> "none", cred |-> OAuthCred(access_token, user_id.value),
             login |-> new_login, requests |-> <<req>>]

(***************************************************************************)
(* The initial states: a client as its constructor leaves it (without      *)
(* credentials, with the credentials it was given, or authenticated), and  *)
(* a service with one playlist.                                            *)
(***************************************************************************)
InitClients ==
    {[cred |-> OAuthCred(NoneInt, NoneInt), login |-> NoneStr],
     [cred |-> OAuthCred(Token(1), NoneInt), login |-> NoneStr]}
    \cup {[cred |-> OAuthCred(Token(u), u), login |-> Login(u)] : u \in UserIds}

ServerTracks == {[id |-> i, albumId |-> a] : i \in TrackIds, a \in AlbumIds}

InitServer(tracks) ==
    [k \in Kinds |-> IF k = 1 THEN [NewPlaylist(1, "Folk") EXCEPT !.tracks = tracks]
                     ELSE NoPlaylist]

Init ==
    /\ \E client \in InitClients : oauth_cred = client.cred /\ login = client.login
    /\ \E tracks \in SeqsUpTo({[id |-> 1, albumId |-> 1]}, 1) : server = InitServer(tracks)
    /\ calls = [c \in CallIds |-> IdleCall]
    /\ clock = 0

(***************************************************************************)
(* The arguments the calls are made with.                                  *)
(***************************************************************************)
MaxCallTracks == 1
MaxPosition == 1

CallerTracks == {Track(1, <<1>>), Track(2, <<>>), TrackWrapper(1, 1, NoneType)}
CallerTrackLists == SeqsUpTo(CallerTracks, MaxCallTracks)
CallerPositions == 0..MaxPosition

(***************************************************************************)
(* The actions: one per operation of the client.  A mutation of a          *)
(* playlist's tracks takes two steps, its GET and its POST, and other      *)
(* calls may run between the two.                                          *)
(***************************************************************************)
\* calls are numbered in the order they are made
Startable(c) ==
    /\ calls[c].pc = "idle"
    /\ \A d \in CallIds : d < c => calls[d].pc # "idle"

Returns(c, op, args, out) ==
    /\ calls' = [calls EXCEPT ![c] = Finished(Begun(op, args), out.exc, out.result, out.requests)]
    /\ clock' = clock + Len(out.requests)

Auth(c) ==
    /\ Startable(c)
    /\ \E uid \in UserIds : \E resp \in AuthResponses(uid) :
        LET out == auth(oauth_cred, login, clock, Login(uid), resp) IN
        /\ Returns(c, "auth", [login |-> Login(uid)],
                   [exc |-> out.exc, result |-> NoneType, requests |-> out.requests])
        /\ oauth_cred' = out.cred
        /\ login' = out.login
    /\ UNCHANGED server

\* logout
Logout ==
    /\ oauth_cred' = NoneType
    /\ login' = NoneStr
    /\ UNCHANGED <<server, calls, clock>>

GetPlaylists(c) ==
    /\ Startable(c)
    /\ \E user_id \in {NoneInt} \cup UserIds, fail \in BOOLEAN :
        LET out == get_playlists(oauth_cred, server, clock, user_id, fail) IN
        Returns(c, "get_playlists", [user_id |-> user_id],
                [exc |-> out.ret.exc,
                 result |-> IF out.ret.exc = "none" THEN out.ret.value ELSE NoneType,
                 requests |-> out.requests])
    /\ UNCHANGED <<oauth_cred, login, server>>

GetPlaylist(c) ==
    /\ Startable(c)
    /\ \E playlist_id \in Kinds, rich_tracks \in BOOLEAN, fail \in BOOLEAN :
        LET out == get_playlist(oauth_cred, server, clock, playlist_id, NoneInt, rich_tracks, fail) IN
        Returns(c, "get_playlist", [playlist_id |-> playlist_id, rich_tracks |-> rich_tracks],
                [exc |-> out.ret.exc,
                 result |-> IF out.ret.exc = "none" THEN out.ret.value ELSE NoneType,
                 requests |-> out.requests])
    /\ UNCHANGED <<oauth_cred, login, server>>

CreatePlaylist(c) ==
    /\ Startable(c)
    /\ \E title \in Titles, visibility \in {"PUBLIC", "PRIVATE"}, fail \in BOOLEAN, with_tracks \in BOOLEAN :
        LET out == create_playlist(oauth_cred, server, clock, title, visibility, fail, with_tracks) IN
        /\ Returns(c, "create_playlist", [title |-> title, visibility |-> visibility], out)
        /\ server' = out.server
    /\ UNCHANGED <<oauth_cred, login>>

DeletePlaylist(c) ==
    /\ Startable(c)
    /\ \E playlist_id \in Kinds, fail \in BOOLEAN :
        LET out == delete_playlist(oauth_cred, server, clock, playlist_id, fail) IN
        /\ Returns(c, "delete_playlist", [playlist_id |-> playlist_id], out)
        /\ server' = out.server
    /\ UNCHANGED <<oauth_cred, login>>

RenamePlaylist(c) ==
    /\ Startable(c)
    /\ \E playlist_id \in Kinds, title \in Titles, fail \in BOOLEAN :
        LET out == rename_playlist(oauth_cred, server, clock, playlist_id, title, fail) IN
        /\ Returns(c, "rename_playlist", [playlist_id |-> playlist_id, title |-> title], out)
        /\ server' = out.server
    /\ UNCHANGED <<oauth_cred, login>>

\* the first step of a mutation: it stops with what it raised, or stands
\* before its POST
Fetched(c, op, args, out) ==
    /\ calls' = [calls EXCEPT ![c] =
          [Begun(op, args) EXCEPT
              !.pc = IF out.exc = "none" THEN "fetched" ELSE "done",
              !.exc = out.exc,
              !.user_id = IF oauth_cred = NoneType THEN NoneInt ELSE oauth_cred.user_id,
              !.playlist = out.playlist,
              !.data = out.data,
              !.requests = out.requests]]
    /\ clock' = clock + Len(out.requests)
    /\ UNCHANGED <<oauth_cred, login, server>>

AddTracksToPlaylist(c, lists) ==
    /\ Startable(c)
    /\ \E playlist_id \in Kinds, tracks \in lists, at \in {Omitted} \cup CallerPositions, ignore_duplicates \in BOOLEAN, fail \in BOOLEAN :
        Fetched(c, "add_tracks_to_playlist",
                [playlist_id |-> playlist_id, tracks |-> tracks, at_position |-> at,
                 ignore_duplicates |-> ignore_duplicates],
                add_tracks_to_playlist(oauth_cred, server, clock, playlist_id, tracks,
                                       Default(at, 0), ignore_duplicates, fail))

DeleteTracksFromPlaylist(c) ==
    /\ Startable(c)
    /\ \E playlist_id \in Kinds, from_track \in CallerPositions, to_track \in CallerPositions, fail \in BOOLEAN :
        Fetched(c, "delete_tracks_from_playlist",
                [playlist_id |-> playlist_id, from_track |-> from_track, to_track |-> to_track],
                delete_tracks_from_playlist(oauth_cred, server, clock, playlist_id,
                                            from_track, to_track, fail))

\* the second step of a mutation: its POST
Submit(c) ==
    /\ calls[c].pc = "fetched"
    /\ \E fail \in BOOLEAN :
        LET out == change_relative(calls[c], fail) IN
        /\ calls' = [calls EXCEPT ![c] = out.call]
        /\ server' = out.server
        /\ clock' = out.clock
    /\ UNCHANGED <<oauth_cred, login>>

Next ==
    \/ Logout
    \/ \E c \in CallIds :
        \/ Auth(c)
        \/ GetPlaylists(c)
        \/ GetPlaylist(c)
        \/ CreatePlaylist(c)
        \/ DeletePlaylist(c)
        \/ RenamePlaylist(c)
        \/ AddTracksToPlaylist(c, CallerTrackLists)
        \/ DeleteTracksFromPlaylist(c)
        \/ Submit(c)

Spec == Init /\ [][Next]_vars

(***************************************************************************)
(* One call of add_tracks_to_playlist by an authenticated client, on a     *)
(* playlist of up to MaxTracks tracks, with caller lists of full tracks    *)
(* and of track references.                                                *)
(***************************************************************************)
DiffCallerTracks ==
    {Track(i, a) : i \in TrackIds, a \in SeqsUpTo(AlbumIds, 1)}
    \cup {TrackWrapper(i, a, NoneType) : i \in TrackIds, a \in AlbumIds}

DiffCallerLists == SeqsUpTo(DiffCallerTracks, MaxTracks)

InitDiff ==
    /\ oauth_cred = OAuthCred(Token(1), 1)
    /\ login = Login(1)
    /\ \E tracks \in SeqsUpTo(ServerTracks, MaxTracks) : server = InitServer(tracks)
    /\ calls = [c \in CallIds |-> IdleCall]
    /\ clock = 0

NextDiff ==
    \/ AddTracksToPlaylist(1, DiffCallerLists)
    \/ Submit(1)

SpecDiff == InitDiff /\ [][NextDiff]_vars

(***************************************************************************)
(* yamusic.py: the legacy client.  It holds the user name and the sign key *)
(* of a session and no OAuth credentials; its models fill a missing        *)
(* property with the property's default.                                   *)
(***************************************************************************)
LegacyMaxTracks == 11

\* the user of the legacy client's session
LegacyUser == 1

\* a or b
PyOr(a, b) == IF Truthy(a) THEN a ELSE b

\* the playlist the service returns to the legacy client
LegacyPayload(srv, kind) ==
    [kind |-> kind, title |-> srv[kind].title, revision |-> srv[kind].revision,
     trackCount |-> Len(srv[kind].tracks),
     tracks |-> [i \in 1..Len(srv[kind].tracks) |-> TrackPayload(srv[kind].tracks[i])]]

\* Model.__init__ of Track and of Playlist
LegacyTrack(p) ==
    [type |-> "Track", id |-> p.id,
     albums |-> IF "albums" \in DOMAIN p THEN [i \in 1..Len(p.albums) |-> p.albums[i].id]
                ELSE <<>>]

LegacyPlaylist(p) ==
    [type |-> "Playlist", kind |-> p.kind, title |-> p.title,
     revision |-> IF "revision" \in DOMAIN p /\ p.revision # NoneInt THEN p.revision ELSE 0,
     trackCount |-> IF "trackCount" \in DOMAIN p THEN p.trackCount ELSE 0,
     tracks |-> IF "tracks" \in DOMAIN p THEN [i \in 1..Len(p.tracks) |-> LegacyTrack(p.tracks[i])]
                ELSE <<>>]

\* get_playlist_by_id
get_playlist_by_id(srv, clk, playlist_id, fail) ==
    LET status == IF fail THEN 500
                  ELSE IF Live(srv, LegacyUser, playlist_id) THEN 200 ELSE 404
        payload == LegacyPayload(srv, playlist_id)
        req == Request(clk + 1, "GET", "handlers/playlist.jsx", LegacyUser, NoneInt,
                       [kinds |-> playlist_id], status,
                       IF status = 200 THEN [playlist |-> payload] ELSE NoneType)
    IN IF status # 200 THEN [ret |-> Raise("ClientError"), requests |-> <<req>>]
       ELSE [ret |-> Ok(LegacyPlaylist(payload)), requests |-> <<req>>]

\* 'to': to_track or tracks_count
delete_to_count(to_track, tracks_count) == PyOr(to_track, tracks_count)

\* 'to': to_track or tracks_count - 1
delete_to(to_track, tracks_count) == PyOr(to_track, tracks_count - 1)

\* 'from': from_track or 0
delete_from(from_track) == PyOr(from_track, 0)

\* remove_tracks_from_playlist_by_id up to its POST
remove_tracks_from_playlist_by_id(srv, clk, playlist_id, from_track, to_track, fail) ==
    LET got == get_playlist_by_id(srv, clk, playlist_id, fail) IN
    IF got.ret.exc # "none" THEN Stopped(got.ret.exc, got.requests, NoneType)
    ELSE LET playlist == got.ret.value
             tracks_count == Len(playlist.tracks)
         IN [exc |-> "none", requests |-> got.requests, playlist |-> playlist,
             data |-> [kind |-> playlist_id,
                       diff |-> json_dumps(<<[op |-> "delete",
                                              from |-> delete_from(from_track),
                                              to |-> delete_to(to_track, tracks_count)]>>),
                       revision |-> playlist.revision,
                       sign |-> Token(LegacyUser)]]

\* the POST of the patch; the legacy client returns the playlist of the answer
playlist_patch(call, srv, clk, fail) ==
    LET status == ChangeStatus(srv, LegacyUser, call.data.sign, call.data, fail)
        after == IF status = 200 THEN ApplyChange(srv, call.data) ELSE srv
        req == Request(clk + 1, "POST", "handlers/playlist-patch.jsx", LegacyUser, NoneInt,
                       call.data, status,
                       IF status = 200 THEN [playlist |-> LegacyPayload(after, call.data.kind)]
                       ELSE NoneType)
    IN [call |-> Finished(call, IF status = 200 THEN "none" ELSE "ClientError",
                          IF status = 200 THEN LegacyPlaylist(req.response.playlist)
                          ELSE NoneType,
                          <<req>>),
        server |-> after,
        clock |-> clk + 1]

\* a playlist of n tracks
LegacyTracks(n) == [i \in 1..n |-> [id |-> 1 + (i % MaxTrackId), albumId |-> 1]]

InitLegacy ==
    /\ oauth_cred = NoneType
    /\ login = Login(LegacyUser)
    /\ \E n \in 0..LegacyMaxTracks : server = InitServer(LegacyTracks(n))
    /\ calls = [c \in CallIds |-> IdleCall]
    /\ clock = 0

RemoveTracksFromPlaylistById(c) ==
    /\ Startable(c)
    /\ \E playlist_id \in Kinds, from_track \in {NoneInt} \cup CallerPositions, to_track \in {NoneInt} \cup CallerPositions, fail \in BOOLEAN :
        LET out == remove_tracks_from_playlist_by_id(server, clock, playlist_id,
                                                     from_track, to_track, fail) IN
        /\ calls' = [calls EXCEPT ![c] =
              [Begun("remove_tracks_from_playlist_by_id",
                     [playlist_id |-> playlist_id, from_track |-> from_track,
                      to_track |-> to_track]) EXCEPT
                  !.pc = IF out.exc = "none" THEN "fetched" ELSE "done",
                  !.exc = out.exc,
                  !.user_id = LegacyUser,
                  !.playlist = out.playlist,
                  !.data = out.data,
                  !.requests = out.requests]]
        /\ clock' = clock + Len(out.requests)
    /\ UNCHANGED <<oauth_cred, login, server>>

PlaylistPatch(c) ==
    /\ calls[c].pc = "fetched"
    /\ \E fail \in BOOLEAN :
        LET out == playlist_patch(calls[c], server, clock, fail) IN
        /\ calls' = [calls EXCEPT ![c] = out.call]
        /\ server' = out.server
        /\ clock' = out.clock
    /\ UNCHANGED <<oauth_cred, login>>

NextLegacy ==
    \E c \in CallIds :
        \/ RemoveTracksFromPlaylistById(c)
        \/ PlaylistPatch(c)

SpecLegacy == InitLegacy /\ [][NextLegacy]_vars

(***************************************************************************)
(* Decoding.  The answers of the service are drawn from bounded sets of    *)
(* payloads, well formed or not, and each call decodes one of them: with   *)
(* the pydantic models of yamusic/models.py, with the marshmallow schemas  *)
(* of yamusic/schemas.py, or with the Model classes of yamusic.py.         *)
(***************************************************************************)
MaxPayloadTracks == 2

\* the track references of a playlist's answer, with the full track or not
WrapperPayloads ==
    {WrapperPayload([id |-> i, albumId |-> 1], rich) : i \in TrackIds, rich \in BOOLEAN}

PlaylistPayloads ==
    {[kind |-> 1, title |-> "Folk", owner |-> [uid |-> 1], trackCount |-> Len(ws),
      revision |-> 1, tracks |-> ws] : ws \in SeqsUpTo(WrapperPayloads, MaxPayloadTracks)}

\* get_playlist from the answer on: the playlist parse_obj builds, and what
\* the method returns after playlist.tracks is assigned
playlist_of_response(payload, rich_tracks) ==
    LET playlist == ParsePlaylist(payload) IN
    [constructed |-> playlist,
     ret |-> IF rich_tracks THEN Unwrapped(playlist) ELSE Ok(playlist)]

\* a call that decodes: what it built first, and what it returned or raised.
\* Decoding reads and writes nothing but its payload, so a behaviour holds
\* one decoding call.
Decoded(c, op, args, constructed, ret) ==
    /\ Startable(c)
    /\ \A d \in CallIds : calls[d].pc = "idle"
    /\ calls' = [calls EXCEPT ![c] =
          [Finished(Begun(op, args), ret.exc,
                    IF ret.exc = "none" THEN ret.value ELSE NoneType, <<>>)
              EXCEPT !.playlist = constructed]]
    /\ UNCHANGED <<oauth_cred, login, server, clock>>

ParsePlaylistResponse(c) ==
    \E payload \in PlaylistPayloads, rich_tracks \in BOOLEAN :
        LET out == playlist_of_response(payload, rich_tracks) IN
        Decoded(c, "get_playlist", [payload |-> payload, rich_tracks |-> rich_tracks],
                out.constructed, out.ret)

MaxAlbums == 2

\* the tracks of an answer: with no, one or several albums, or without the
\* albums field
AlbumLists == SeqsUpTo(AlbumIds, MaxAlbums)

TrackPayloads ==
    {[id |-> i, albums |-> [k \in 1..Len(a) |-> [id |-> a[k]]]] :
        i \in TrackIds, a \in AlbumLists}
    \cup {[id |-> i] : i \in TrackIds}

\* Track.parse_obj: albums: List[Album] is required and may be empty
parse_obj_Track(p) ==
    IF {"id", "albums"} \subseteq DOMAIN p THEN Ok(ParseTrack(p))
    ELSE Raise("ValidationError")

\* Track.parse_obj(payload).album_id
ParseTrackAlbumId(c) ==
    \E payload \in TrackPayloads :
        LET track == parse_obj_Track(payload)
            id == IF track.exc = "none" THEN album_id(track.value) ELSE track
        IN Decoded(c, "Track.album_id", [payload |-> payload],
                   IF track.exc = "none" THEN track.value ELSE NoneType,
                   IF id.exc = "none" THEN Ok([album_id |-> id.value]) ELSE id)

(***************************************************************************)
(* yamusic/schemas.py: BaseSchema over marshmallow.  A JSON value is an    *)
(* object, an array or a string.                                           *)
(***************************************************************************)
JObject(fields) == [json |-> "object", fields |-> fields]
JArray(items) == [json |-> "array", items |-> items]
JString(s) == [json |-> "string", s |-> s]

Wrapped(key, value) == JObject([k \in {key} |-> value])

\* data[key] with a string key
GetItem(data, key) ==
    IF data.json # "object" THEN Raise("TypeError")
    ELSE IF key \in DOMAIN data.fields THEN Ok(data.fields[key])
    ELSE Raise("KeyError")

\* for item in data: the items of a list, the keys of a dict
RECURSIVE KeysOf(_)
KeysOf(fields) ==
    IF DOMAIN fields = {} THEN <<>>
    ELSE LET key == CHOOSE k \in DOMAIN fields : TRUE IN
         <<JString(key)>> \o KeysOf([k \in DOMAIN fields \ {key} |-> fields[k]])

Iterate(data) == IF data.json = "array" THEN data.items ELSE KeysOf(data.fields)

\* BaseSchema.__init__: the schema of an entity with its two envelope keys
BaseSchema(object, envelope, many_envelope, many) ==
    [object |-> object, envelope |-> [one |-> envelope, many |-> many_envelope],
     many |-> many]

\* an unwrap that lets a payload without the key through
_unwrap_envelope_get(schema, data, envelope) ==
    LET key == schema.envelope[envelope] IN
    IF key = NoneStr THEN Ok(data)
    ELSE LET item == GetItem(data, key) IN
         IF item.exc = "KeyError" THEN Ok(data) ELSE item

\* BaseSchema._unwrap_envelope
_unwrap_envelope(schema, data, envelope) ==
    LET key == schema.envelope[envelope] IN
    IF key = NoneStr THEN Ok(data)
    ELSE LET item == GetItem(data, key) IN
         IF item.exc = "KeyError" THEN Raise("ValidationError") ELSE item

\* @pre_load(pass_many=False)
unwrap_envelope(schema, data) == _unwrap_envelope(schema, data, "one")

\* @pre_load(pass_many=True): called with the whole data whatever many is
unwrap_envelope_many(schema, data, many) == _unwrap_envelope(schema, data, "many")

\* [processor(item) for item in data]: ends at the first item that raises
RECURSIVE UnwrapEach(_, _)
UnwrapEach(schema, items) ==
    IF items = <<>> THEN Ok(<<>>)
    ELSE LET first == unwrap_envelope(schema, Head(items)) IN
         IF first.exc # "none" THEN first
         ELSE LET rest == UnwrapEach(schema, Tail(items)) IN
              IF rest.exc # "none" THEN rest
              ELSE Ok(<<first.value>> \o rest.value)

\* marshmallow runs the pass_many processors first, then the others on the
\* data, or on each item of the data when many
invoke_load_processors(schema, data, many) ==
    LET whole == unwrap_envelope_many(schema, data, many) IN
    IF whole.exc # "none" THEN whole
    ELSE IF many
        THEN LET each == UnwrapEach(schema, Iterate(whole.value)) IN
             IF each.exc # "none" THEN each ELSE Ok(JArray(each.value))
    ELSE unwrap_envelope(schema, whole.value)

\* the fields of one object, id being required, and build_object
DeserializeOne(schema, data) ==
    IF data.json # "object" THEN Raise("ValidationError")
    ELSE IF "id" \notin DOMAIN data.fields THEN Raise("ValidationError")
    ELSE Ok([type |-> schema.object, id |-> data.fields.id])

\* a deserialization that yields the entities last to first
DeserializeReversed(schema, data, many) ==
    IF ~many THEN DeserializeOne(schema, data)
    ELSE IF \E i \in 1..Len(data.items) : DeserializeOne(schema, data.items[i]).exc # "none"
        THEN Raise("ValidationError")
    ELSE Ok(ListOf([i \in 1..Len(data.items) |->
                       DeserializeOne(schema, data.items[Len(data.items) + 1 - i]).value]))

\* the entities of the data, one per item and in the order of the items
Deserialize(schema, data, many) ==
    IF ~many THEN DeserializeOne(schema, data)
    ELSE IF \E i \in 1..Len(data.items) : DeserializeOne(schema, data.items[i]).exc # "none"
        THEN Raise("ValidationError")
    ELSE Ok(ListOf([i \in 1..Len(data.items) |->
                       DeserializeOne(schema, data.items[i]).value]))

\* BaseSchema.handle_error
handle_error(error, data) == Raise("ResponseFormatError")

\* Schema.load: the processors, the fields, and handle_error on any
\* validation error
load(schema, data) ==
    LET processed == invoke_load_processors(schema, data, schema.many)
        result == IF processed.exc # "none" THEN processed
                  ELSE Deserialize(schema, processed.value, schema.many)
    IN IF result.exc = "ValidationError" THEN handle_error(result, data) ELSE result

\* the schemas: GenreSchema with or without each envelope key, for one
\* object or for many
EnvelopeKeys == {NoneStr, "track"}
ManyEnvelopeKeys == {NoneStr, "result"}

Schemas ==
    {BaseSchema("Genre", envelope, many_envelope, many) :
        envelope \in EnvelopeKeys, many_envelope \in ManyEnvelopeKeys, many \in BOOLEAN}

\* the payloads: an object with or without its required id, bare or under
\* the keys, and lists of them
ItemPayloads == {JObject([id |-> i]) : i \in TrackIds} \cup {JObject([title |-> "Folk"])}

ListItemPayloads == ItemPayloads \cup {Wrapped("track", JObject([id |-> 1]))}

ArrayPayloads == {JArray(items) : items \in SeqsUpTo(ListItemPayloads, MaxPayloadTracks)}

SchemaPayloads ==
    ItemPayloads
    \cup {Wrapped("track", item) : item \in ItemPayloads}
    \cup {Wrapped("result", item) : item \in ItemPayloads}
    \cup {Wrapped("result", Wrapped("track", item)) : item \in ItemPayloads}
    \cup ArrayPayloads
    \cup {Wrapped("result", list) : list \in ArrayPayloads}

Load(c) ==
    \E schema \in Schemas, payload \in SchemaPayloads :
        Decoded(c, "load", [schema |-> schema, payload |-> payload], NoneType,
                load(schema, payload))

(***************************************************************************)
(* yamusic.py: Property, ModelMeta and Model.  A class is its properties;  *)
(* a value is a JSON value, or a model built from one.                     *)
(***************************************************************************)
JNull == [json |-> "null"]
JNumber(n) == [json |-> "number", n |-> n]
JModel(name, attrs) == [json |-> "model", name |-> name, attrs |-> attrs]

\* the types a Property coerces with: int, str or a Model class
IntType == [kind |-> "int"]
StrType == [kind |-> "str"]
ModelType(name, properties) == [kind |-> "model", name |-> name, properties |-> properties]

\* Property.__init__
Property(type, required, as_list, nullable, default) ==
    [type |-> type, required |-> required, as_list |-> as_list, nullable |-> nullable,
     default |-> default]

\* class Album(Model)
AlbumClass ==
    ModelType("Album",
              [id |-> Property(IntType, FALSE, FALSE, FALSE, JNull),
               title |-> Property(StrType, TRUE, FALSE, FALSE, JNull),
               year |-> Property(IntType, TRUE, FALSE, FALSE, JNull)])

\* str(dict)
Repr(fields) ==
    IF DOMAIN fields = {} THEN "{}" ELSE "{'title': 'Folk', 'year': 1}"

RECURSIVE Model_init(_, _)
RECURSIVE Coerce(_, _)
RECURSIVE CoerceItems(_, _)
RECURSIVE PropertyValue(_, _, _)

\* ModelMeta.__call__: cls(arg)
ModelMeta_call(cls, arg) ==
    IF arg = JNull THEN Model_init(cls, <<>>)
    ELSE IF arg.json = "object" THEN Model_init(cls, arg.fields)
    ELSE IF arg.json = "model" THEN Ok(arg)
    ELSE Raise("ModelError")

\* prop.type(value): int(value), str(value) or cls(value)
Coerce(type, value) ==
    IF type.kind = "int"
    THEN IF value.json = "number" THEN Ok(value)
         ELSE IF value.json = "string" THEN Raise("ValueError")
         ELSE Raise("TypeError")
    ELSE IF type.kind = "str"
    THEN IF value.json = "string" THEN Ok(value)
         ELSE IF value.json = "null" THEN Ok(JString("None"))
         ELSE IF value.json = "number" THEN Ok(JString(ToString(value.n)))
         ELSE IF value.json = "object" THEN Ok(JString(Repr(value.fields)))
         ELSE Ok(JString("[]"))
    ELSE ModelMeta_call(type, value)

\* [prop.type(item) for item in items]
CoerceItems(type, items) ==
    IF items = <<>> THEN Ok(<<>>)
    ELSE LET first == Coerce(type, Head(items)) IN
         IF first.exc # "none" THEN first
         ELSE LET rest == CoerceItems(type, Tail(items)) IN
              IF rest.exc # "none" THEN rest
              ELSE Ok(<<first.value>> \o rest.value)

\* the value Model.__init__ gives one property
PropertyValue(prop, kwrags, name) ==
    IF name \notin DOMAIN kwrags
    THEN IF prop.default # JNull THEN Ok(prop.default)
         ELSE IF ~prop.required THEN Ok(JNull)
         ELSE Raise("ModelError")
    ELSE LET value == IF ~prop.as_list THEN Coerce(prop.type, kwrags[name])
                      ELSE IF kwrags[name].json = "array"
                          THEN LET items == CoerceItems(prop.type, kwrags[name].items) IN
                               IF items.exc # "none" THEN items ELSE Ok(JArray(items.value))
                      ELSE IF kwrags[name].json = "object"
                          THEN LET items == CoerceItems(prop.type, KeysOf(kwrags[name].fields)) IN
                               IF items.exc # "none" THEN items ELSE Ok(JArray(items.value))
                      ELSE Raise("TypeError")
         IN IF value.exc = "TypeError"
            THEN IF prop.nullable /\ kwrags[name] = JNull THEN Ok(prop.default)
                 ELSE Raise("ModelError")
            ELSE IF value.exc = "ValueError" THEN Raise("ModelError")
            ELSE value

\* Model.__init__
Model_init(cls, kwrags) ==
    IF \E name \in DOMAIN cls.properties :
           PropertyValue(cls.properties[name], kwrags, name).exc # "none"
    THEN Raise("ModelError")
    ELSE Ok(JModel(cls.name,
                   [name \in DOMAIN cls.properties |->
                       PropertyValue(cls.properties[name], kwrags, name).value]))

\* the declarations of a property, and a class of one property, value
PropertyTypes == {IntType, StrType, AlbumClass}

Defaults(type, as_list) ==
    {JNull} \cup (IF as_list THEN {JArray(<<>>)}
                  ELSE IF type.kind = "int" THEN {JNumber(0)}
                  ELSE IF type.kind = "str" THEN {JString("")}
                  ELSE {})

Properties ==
    UNION {{Property(type, required, as_list, nullable, default) :
               default \in Defaults(type, as_list)} :
           type \in PropertyTypes, required \in BOOLEAN, as_list \in BOOLEAN,
           nullable \in BOOLEAN}

\* what a payload holds for the property, when it holds it
PropertyPayloads ==
    {JNull, JNumber(1), JString("Folk"), JObject([title |-> JString("Folk"), year |-> JNumber(1)]),
     JArray(<<>>), JArray(<<JNumber(1)>>)}

ModelInit(c) ==
    \E prop \in Properties, kwrags \in {<<>>} \cup {[value |-> v] : v \in PropertyPayloads} :
        Decoded(c, "Model", [property |-> prop, kwrags |-> kwrags], NoneType,
                Model_init(ModelType("Model", [value |-> prop]), kwrags))

(***************************************************************************)
(* Search results: the four categories of an answer, by the models of      *)
(* yamusic/models.py, by SearchResultSchema and by the classes of          *)
(* yamusic.py.                                                             *)
(***************************************************************************)
Categories == {"albums", "artists", "tracks", "playlists"}

EntityOf(category) ==
    CASE category = "albums" -> "Album"
      [] category = "artists" -> "Artist"
      [] category = "tracks" -> "Track"
      [] category = "playlists" -> "Playlist"

\* what the service found: a category is in the answer or not, and holds
\* the ids of its items in order
Absent == [present |-> FALSE, ids |-> <<>>]
Present(ids) == [present |-> TRUE, ids |-> ids]

FoundLists == {Absent} \cup {Present(ids) : ids \in {<<>>, <<1>>, <<2, 1>>}}

Found == [Categories -> FoundLists]

PresentIn(found) == {category \in Categories : found[category].present}

\* SearchResultWrapper.parse_obj: Optional[Results[List[...]]] fields
SearchResultWrapper(p) ==
    [category \in Categories |->
        IF category \in DOMAIN p
        THEN [results |-> ListOf([i \in 1..Len(p[category].results) |->
                                     [type |-> EntityOf(category),
                                      id |-> p[category].results[i].id]])]
        ELSE NoneType]

\* SearchResultWrapper.unwrap
SearchResultWrapper_unwrap(self) ==
    [category \in Categories |->
        IF self[category] # NoneType THEN self[category].results ELSE ListOf(<<>>)]

\* the answer as client.search gets it, below the result key
WrapperSearchPayload(found) ==
    [category \in PresentIn(found) |->
        [results |-> [i \in 1..Len(found[category].ids) |-> [id |-> found[category].ids[i]]]]]

\* SearchResultSchema: four Nested fields with missing={'results': []}
NestedSchema(category) == BaseSchema(EntityOf(category), NoneStr, "results", TRUE)

SearchResultSchema_load(data) ==
    LET field(category) ==
            load(NestedSchema(category),
                 IF category \in DOMAIN data.fields THEN data.fields[category]
                 ELSE Wrapped("results", JArray(<<>>)))
    IN IF \E category \in Categories : field(category).exc # "none"
       THEN handle_error(data, data)
       ELSE Ok([category \in Categories |-> field(category).value])

SchemaSearchPayload(found) ==
    JObject([category \in PresentIn(found) |->
                Wrapped("results",
                        JArray([i \in 1..Len(found[category].ids) |->
                                   JObject([id |-> found[category].ids[i]])]))])

\* class Artist, Track, Playlist and the search result classes of yamusic.py
ArtistClass ==
    ModelType("Artist",
              [id |-> Property(IntType, FALSE, FALSE, FALSE, JNull),
               name |-> Property(StrType, TRUE, FALSE, FALSE, JNull)])

TrackClass ==
    ModelType("Track",
              [id |-> Property(IntType, TRUE, FALSE, FALSE, JNull),
               title |-> Property(StrType, FALSE, FALSE, FALSE, JNull),
               duration |-> Property(IntType, FALSE, FALSE, FALSE, JNull),
               size |-> Property(IntType, FALSE, FALSE, FALSE, JNull),
               artists |-> Property(ArtistClass, FALSE, TRUE, FALSE, JArray(<<>>)),
               albums |-> Property(AlbumClass, FALSE, TRUE, FALSE, JArray(<<>>))])

PlaylistClass ==
    ModelType("Playlist",
              [kind |-> Property(IntType, FALSE, FALSE, FALSE, JNull),
               title |-> Property(StrType, TRUE, FALSE, FALSE, JNull),
               description |-> Property(StrType, FALSE, FALSE, FALSE, JString("")),
               revision |-> Property(IntType, FALSE, FALSE, TRUE, JNumber(0)),
               trackCount |-> Property(IntType, TRUE, FALSE, FALSE, JNumber(0)),
               tracks |-> Property(TrackClass, FALSE, TRUE, FALSE, JArray(<<>>))])

ClassOf(category) ==
    CASE category = "albums" -> AlbumClass
      [] category = "artists" -> ArtistClass
      [] category = "tracks" -> TrackClass
      [] category = "playlists" -> PlaylistClass

\* ArtistSearchResult, AlbumSearchResult, PlaylistSearchResult, TracksSearchResult
CategorySearchResult(category) ==
    ModelType(EntityOf(category) \o "SearchResult",
              [items |-> Property(ClassOf(category), TRUE, TRUE, FALSE, JNull),
               total |-> Property(IntType, FALSE, FALSE, FALSE, JNumber(0))])

\* class SearchResult(Model)
SearchResultClass ==
    ModelType("SearchResult",
              [category \in Categories |->
                  Property(CategorySearchResult(category), TRUE, FALSE, FALSE, JNull)])

\* an item of the legacy answer, with the required properties of its class
LegacyItem(category, i) ==
    CASE category = "albums" ->
            JObject([id |-> JNumber(i), title |-> JString("Folk"), year |-> JNumber(1)])
      [] category = "artists" -> JObject([id |-> JNumber(i), name |-> JString("Folk")])
      [] category = "tracks" -> JObject([id |-> JNumber(i)])
      [] category = "playlists" -> JObject([kind |-> JNumber(i), title |-> JString("Folk")])

LegacySearchPayload(found) ==
    JObject([category \in PresentIn(found) |->
                JObject([items |-> JArray([i \in 1..Len(found[category].ids) |->
                                              LegacyItem(category, found[category].ids[i])]),
                         total |-> JNumber(Len(found[category].ids))])])

\* YandexMusicClient.search from the answer on
SearchUnwrap(c) ==
    \E found \in Found :
        Decoded(c, "search", [found |-> found, payload |-> WrapperSearchPayload(found)],
                NoneType, Ok(SearchResultWrapper_unwrap(SearchResultWrapper(WrapperSearchPayload(found)))))

\* SearchResultSchema().load
SearchSchemaLoad(c) ==
    \E found \in Found :
        Decoded(c, "SearchResultSchema.load",
                [found |-> found, payload |-> SchemaSearchPayload(found)],
                NoneType, SearchResultSchema_load(SchemaSearchPayload(found)))

\* yamusic.py: SearchResult(resp)
LegacySearch(c) ==
    \E found \in Found :
        Decoded(c, "yamusic.search", [found |-> found, payload |-> LegacySearchPayload(found)],
                NoneType, ModelMeta_call(SearchResultClass, LegacySearchPayload(found)))

(***************************************************************************)
(* Equality of entities: a == b for two objects of one class.              *)
(***************************************************************************)
\* track references: with or without album id, with or without a full track
Wrappers ==
    {TrackWrapper(id, album, track) :
        id \in TrackIds, album \in AlbumIds \cup {NoneInt},
        track \in {NoneType, Track(1, <<1>>), Track(2, <<2, 1>>)}}

\* entities.Playlist(kind=..., title=..., owner=User(uid=...), ...)
EntityPlaylist(kind, title, owner) ==
    [type |-> "entities.Playlist", kind |-> kind, title |-> title, owner |-> owner]

ModelPlaylists ==
    {ParsePlaylist([kind |-> kind, title |-> title, owner |-> [uid |-> owner],
                    trackCount |-> 0]) :
        kind \in Kinds, title \in {"Folk", "Jazz"}, owner \in UserIds}

EntityPlaylists ==
    {EntityPlaylist(kind, title, owner) :
        kind \in Kinds, title \in {"Folk", "Jazz"}, owner \in UserIds}

Comparables == {Wrappers, ModelPlaylists, EntityPlaylists}

Compare(c) ==
    \E class \in Comparables :
        \E a, b \in class :
            Decoded(c, "__eq__", [a |-> a, b |-> b], NoneType, Ok([eq |-> PyEq(a, b)]))

(***************************************************************************)
(* Lookup of a playlist by its title: get_playlist(title=...) of the       *)
(* client, and get_playlist(title) of yamusic.py.                          *)
(***************************************************************************)
\* a lookup that lets the IndexError of [...][0] through
get_playlist_by_title_unguarded(cred, srv, clk, title, user_id, rich_tracks, fail_list, fail) ==
    LET user == ResolveUser(cred, user_id) IN
    IF user.exc # "none" THEN [ret |-> Raise(user.exc), requests |-> <<>>]
    ELSE LET list == get_playlists(cred, srv, clk, user.value, fail_list) IN
         IF list.ret.exc # "none" THEN list
         ELSE LET found == SelectSeq(list.ret.value.items, LAMBDA p : p.title = title) IN
              IF found = <<>> THEN [ret |-> Raise("IndexError"), requests |-> list.requests]
              ELSE LET one == get_playlist(cred, srv, clk + Len(list.requests),
                                           found[1].kind, user.value, rich_tracks, fail)
                   IN [ret |-> one.ret, requests |-> list.requests \o one.requests]

\* get_playlist by title: the list of the user's playlists, the first of
\* that title, and the request for it by its kind
get_playlist_by_title(cred, srv, clk, title, user_id, rich_tracks, fail_list, fail) ==
    LET user == ResolveUser(cred, user_id) IN
    IF user.exc # "none" THEN [ret |-> Raise(user.exc), requests |-> <<>>]
    ELSE LET list == get_playlists(cred, srv, clk, user.value, fail_list) IN
         IF list.ret.exc # "none" THEN list
         ELSE LET found == SelectSeq(list.ret.value.items, LAMBDA p : p.title = title) IN
              IF found = <<>> THEN [ret |-> Raise("NotFoundError"), requests |-> list.requests]
              ELSE LET one == get_playlist(cred, srv, clk + Len(list.requests),
                                           found[1].kind, user.value, rich_tracks, fail)
                   IN [ret |-> one.ret, requests |-> list.requests \o one.requests]

\* the playlists the service lists for the legacy client
RECURSIVE LegacyListPayloads(_, _)
LegacyListPayloads(srv, kind) ==
    IF kind > MaxKinds THEN <<>>
    ELSE (IF Live(srv, LegacyUser, kind) THEN <<LegacyPayload(srv, kind)>> ELSE <<>>)
         \o LegacyListPayloads(srv, kind + 1)

\* yamusic.py: get_playlists
legacy_get_playlists(srv, clk, fail) ==
    LET status == IF fail THEN 500 ELSE 200
        payloads == LegacyListPayloads(srv, 1)
        req == Request(clk + 1, "GET", "handlers/library.jsx", LegacyUser, NoneInt,
                       [filter |-> "playlists"], status,
                       IF status = 200 THEN [playlists |-> payloads] ELSE NoneType)
    IN IF status # 200 THEN [ret |-> Raise("ClientError"), requests |-> <<req>>]
       ELSE [ret |-> Ok([i \in 1..Len(payloads) |-> LegacyPlaylist(payloads[i])]),
             requests |-> <<req>>]

\* yamusic.py: get_playlist(title)
legacy_get_playlist(srv, clk, title, fail) ==
    LET list == legacy_get_playlists(srv, clk, fail) IN
    IF list.ret.exc # "none" THEN list
    ELSE LET found == SelectSeq(list.ret.value, LAMBDA p : p.title = title) IN
         IF found = <<>> THEN [ret |-> Raise("NotFoundError"), requests |-> list.requests]
         ELSE [ret |-> Ok(found[1]), requests |-> list.requests]

\* a service where each kind is free or holds a playlist of some user
LookupServers == [Kinds -> {NoPlaylist} \cup {NewPlaylist(u, t) : u \in UserIds, t \in Titles}]

InitLookup ==
    /\ \E client \in InitClients : oauth_cred = client.cred /\ login = client.login
    /\ server \in LookupServers
    /\ calls = [c \in CallIds |-> IdleCall]
    /\ clock = 0

GetPlaylistByTitle(c) ==
    /\ Startable(c)
    /\ \E title \in Titles, user_id \in {NoneInt} \cup UserIds, fails \in {"none", "list", "one"} :
        LET out == get_playlist_by_title(oauth_cred, server, clock, title, user_id, FALSE,
                                         fails = "list", fails = "one") IN
        Returns(c, "get_playlist", [title |-> title, user_id |-> user_id],
                [exc |-> out.ret.exc,
                 result |-> IF out.ret.exc = "none" THEN out.ret.value ELSE NoneType,
                 requests |-> out.requests])
    /\ UNCHANGED <<oauth_cred, login, server>>

LegacyGetPlaylist(c) ==
    /\ Startable(c)
    /\ \E title \in Titles, fail \in BOOLEAN :
        LET out == legacy_get_playlist(server, clock, title, fail) IN
        Returns(c, "yamusic.get_playlist", [title |-> title],
                [exc |-> out.ret.exc,
                 result |-> IF out.ret.exc = "none" THEN out.ret.value ELSE NoneType,
                 requests |-> out.requests])
    /\ UNCHANGED <<oauth_cred, login, server>>

NextLookup ==
    \E c \in CallIds :
        \/ GetPlaylistByTitle(c)
        \/ LegacyGetPlaylist(c)
        \/ RenamePlaylist(c)

SpecLookup == InitLookup /\ [][NextLookup]_vars

(***************************************************************************)
(* yamusic.py: the __attrs__ list that __repr__ reads.  ModelMeta.__new__  *)
(* gives each class one list, Model.__init__ appends to self.__attrs__,    *)
(* which is the list of the class: the list holds what the constructions   *)
(* of the class have appended so far, in their order.                      *)
(***************************************************************************)
\* ModelMeta.get_properties: the names in the order of dir()
get_properties(cls) ==
    CASE cls.name = "Album" -> <<"id", "title", "year">>
      [] cls.name = "Artist" -> <<"id", "name">>

\* self.__attrs__.append((name, value)) for each property, up to the first
\* one that raises
RECURSIVE Appended(_, _, _)
Appended(cls, kwrags, names) ==
    IF names = <<>> THEN <<>>
    ELSE LET value == PropertyValue(cls.properties[Head(names)], kwrags, Head(names)) IN
         IF value.exc # "none" THEN <<>>
         ELSE <<[name |-> Head(names), value |-> value.value]>>
              \o Appended(cls, kwrags, Tail(names))

\* cls.__attrs__ after the constructions made so far, from call c on
RECURSIVE __attrs__(_, _)
__attrs__(name, c) ==
    IF c > MaxCalls THEN <<>>
    ELSE (IF calls[c].op = "Model.__init__" /\ calls[c].args.cls = name
          THEN calls[c].data ELSE <<>>)
         \o __attrs__(name, c + 1)

\* the arguments of a construction: each property given or left out
Subrecords(r) == UNION {{[k \in D |-> r[k]]} : D \in SUBSET DOMAIN r}

ModelKwargs(cls) ==
    IF cls.name = "Album"
    THEN UNION {Subrecords([id |-> JNumber(i), title |-> JString("Folk"), year |-> JNumber(1)]) :
                   i \in TrackIds}
    ELSE UNION {Subrecords([id |-> JNumber(i), name |-> JString("Folk")]) : i \in TrackIds}

InitModel ==
    /\ oauth_cred = NoneType
    /\ login = Login(LegacyUser)
    /\ server = InitServer(<<>>)
    /\ calls = [c \in CallIds |-> IdleCall]
    /\ clock = 0

\* Album(**kwrags), Artist(**kwrags)
Construct(c) ==
    /\ Startable(c)
    /\ \E cls \in {AlbumClass, ArtistClass} : \E kwrags \in ModelKwargs(cls) :
        LET ret == Model_init(cls, kwrags) IN
        calls' = [calls EXCEPT ![c] =
            [Finished(Begun("Model.__init__", [cls |-> cls.name, kwrags |-> kwrags]),
                      ret.exc, IF ret.exc = "none" THEN ret.value ELSE NoneType, <<>>)
                EXCEPT !.data = Appended(cls, kwrags, get_properties(cls))]]
    /\ UNCHANGED <<oauth_cred, login, server, clock>>

NextModel == \E c \in CallIds : Construct(c)

SpecModel == InitModel /\ [][NextModel]_vars

\* the decoding calls, each on a payload of its own
InitDecode ==
    /\ oauth_cred = OAuthCred(Token(1), 1)
    /\ login = Login(1)
    /\ server = InitServer(<<>>)
    /\ calls = [c \in CallIds |-> IdleCall]
    /\ clock = 0

NextDecode ==
    \E c \in CallIds :
        \/ ParsePlaylistResponse(c)
        \/ ParseTrackAlbumId(c)
        \/ Load(c)
        \/ ModelInit(c)
        \/ SearchUnwrap(c)
        \/ SearchSchemaLoad(c)
        \/ LegacySearch(c)
        \/ Compare(c)

SpecDecode == InitDecode /\ [][NextDecode]_vars

(***************************************************************************)
(* The claims.                                                             *)
(***************************************************************************)
Mutations == {"add_tracks_to_playlist", "delete_tracks_from_playlist"}

AuthRequired ==
    Mutations \cup {"create_playlist", "delete_playlist", "rename_playlist"}

IsFetch(r) == r.path = "users/playlists"
IsSubmission(r) == r.path = "users/playlists/change-relative"

Fetches(call) == SelectSeq(call.requests, IsFetch)
Submissions(call) == SelectSeq(call.requests, IsSubmission)

Accepted(call) ==
    \E i \in 1..Len(call.requests) :
        IsSubmission(call.requests[i]) /\ call.requests[i].status = 200

\* the client holds an access token and a user id
HoldsCredentials(cred) ==
    cred # NoneType /\ Truthy(cred.access_token) /\ Truthy(cred.user_id)

\* C1: in a call of add_tracks_to_playlist or delete_tracks_from_playlist
\* the fetch of the playlist is answered before the change is sent, and the
\* change carries the revision that this call's own fetch returned.
C1_SubmitsRevisionOfOwnFetch ==
    \A c \in CallIds :
        calls[c].op \in Mutations =>
            /\ \A i \in 1..Len(calls[c].requests) :
                IsSubmission(calls[c].requests[i]) =>
                    /\ i > 1
                    /\ IsFetch(calls[c].requests[i - 1])
                    /\ calls[c].requests[i - 1].status = 200
                    /\ calls[c].requests[i - 1].time < calls[c].requests[i].time
                    /\ calls[c].requests[i].data.revision =
                           calls[c].requests[i - 1].response.result[1].revision
            /\ calls[c].pc = "fetched" =>
                /\ Len(calls[c].requests) = 1
                /\ IsFetch(calls[c].requests[1])
                /\ calls[c].data.revision = calls[c].requests[1].response.result[1].revision

\* two calls changed the same playlist one after the other, the second at
\* the revision the first one left
C1_Witness ==
    \E c, d \in CallIds :
        /\ c # d
        /\ Accepted(calls[c]) /\ Accepted(calls[d])
        /\ calls[c].data.kind = calls[d].data.kind
        /\ calls[d].data.revision = calls[c].data.revision + 1

\* both calls had their fetch answered, at the same revision of the same
\* playlist, before either sent its change
HasFetched(call) ==
    /\ call.op \in Mutations
    /\ Len(call.requests) >= 1
    /\ IsFetch(call.requests[1])
    /\ call.requests[1].status = 200

FetchedRevision(call) == call.requests[1].response.result[1].revision

FetchedTogether(c, d) ==
    /\ c # d
    /\ HasFetched(calls[c]) /\ HasFetched(calls[d])
    /\ calls[c].requests[1].data.kinds = calls[d].requests[1].data.kinds
    /\ calls[c].user_id = calls[d].user_id
    /\ FetchedRevision(calls[c]) = FetchedRevision(calls[d])
    /\ \A e \in {c, d} : \A i \in 1..Len(calls[e].requests) :
          IsSubmission(calls[e].requests[i]) =>
              /\ calls[e].requests[i].time > calls[c].requests[1].time
              /\ calls[e].requests[i].time > calls[d].requests[1].time

NotBothAccepted ==
    \A c, d \in CallIds :
        FetchedTogether(c, d) =>
            /\ ~(Accepted(calls[c]) /\ Accepted(calls[d]))
            /\ (Accepted(calls[c]) \/ Accepted(calls[d])) =>
                  \A e \in {c, d} :
                      ~ServerAccepts(server, calls[e].user_id,
                                     calls[e].requests[1].data.kinds,
                                     FetchedRevision(calls[e]))

RejectedChangesNothing ==
    \A c \in CallIds :
        (/\ calls[c].pc = "fetched"
         /\ calls'[c].pc = "done"
         /\ ~Accepted(calls'[c])) => server' = server

\* C2: of two mutations of one playlist that both fetched revision r before
\* either sent its change, at most one is accepted; a refused change leaves
\* the service's playlists as they were, and once one is accepted the
\* service no longer takes a change at revision r.
C2_OneOfTwoAtTheSameRevision == []NotBothAccepted /\ [][RejectedChangesNothing]_vars

C2_Witness ==
    \E c, d \in CallIds :
        /\ FetchedTogether(c, d)
        /\ Accepted(calls[c])
        /\ calls[d].pc = "done"
        /\ Len(Submissions(calls[d])) = 1
        /\ Submissions(calls[d])[1].status = 412

\* C3: a mutation sends at most one change after at most one fetch; when
\* the service refuses the change the call ends with the HTTP error.
C3_SingleSubmission ==
    \A c \in CallIds :
        calls[c].op \in Mutations =>
            /\ Len(Submissions(calls[c])) <= 1
            /\ Len(Fetches(calls[c])) <= 1
            /\ \A i \in 1..Len(calls[c].requests) :
                (/\ IsSubmission(calls[c].requests[i])
                 /\ calls[c].requests[i].status # 200) =>
                    /\ i = Len(calls[c].requests)
                    /\ calls[c].pc = "done"
                    /\ calls[c].exc = "HTTPError"

C3_Witness ==
    \E c \in CallIds :
        /\ calls[c].op \in Mutations
        /\ calls[c].pc = "done"
        /\ calls[c].exc = "HTTPError"
        /\ Len(Submissions(calls[c])) = 1
        /\ Submissions(calls[c])[1].status = 412

\* C4: called on a client that holds no credentials, each of the five
\* operations behind auth_required raises AuthenticationError and sends no
\* request.
C4_UnauthenticatedRaisesAuthenticationError ==
    [][\A c \in CallIds :
          (/\ calls[c].pc = "idle"
           /\ calls'[c].pc # "idle"
           /\ calls'[c].op \in AuthRequired
           /\ ~HoldsCredentials(oauth_cred)) =>
              /\ calls'[c].exc = "AuthenticationError"
              /\ calls'[c].requests = <<>>]_vars

\* C5: is_authenticated returns a boolean in every state, True exactly when
\* the client holds an access token and a user id.
C5_IsAuthenticatedReturnsBoolean ==
    is_authenticated(oauth_cred) = Ok(HoldsCredentials(oauth_cred))

\* the (id, album id) pairs of the caller's tracks, in the caller's order
CallerPairs(tracks) ==
    [i \in 1..Len(tracks) |->
        [id |-> tracks[i].id,
         albumid |-> IF album_id(tracks[i]).exc = "none" THEN album_id(tracks[i]).value
                     ELSE NoneInt]]

IsAdd(call) == call.op = "add_tracks_to_playlist"

\* C6: with ignore_duplicates, once the playlist is fetched the call builds
\* its insert without an error, and the insert holds no track whose id is
\* the id of a track of the fetched playlist; for playlists of any size and
\* caller lists of full tracks and of track references.
C6_IgnoreDuplicatesDropsPresentTracks ==
    \A c \in CallIds :
        (/\ IsAdd(calls[c])
         /\ calls[c].args.ignore_duplicates
         /\ HasFetched(calls[c])
         /\ \A i \in 1..Len(calls[c].args.tracks) :
                album_id(calls[c].args.tracks[i]).exc = "none") =>
            /\ calls[c].data # NoneType
            /\ LET entries == json_loads(calls[c].data.diff)[1].tracks
                   present == calls[c].requests[1].response.result[1].tracks
               IN \A i \in 1..Len(entries) : \A j \in 1..Len(present) :
                      entries[i].id # present[j].id

\* C7: when add_tracks_to_playlist with ignore_duplicates runs twice with
\* the same tracks, and the playlist changed between the two runs by the
\* first run's insert only, the second run builds an insert of no tracks.
C7_SecondRunInsertsNothing ==
    \A c, d \in CallIds :
        (/\ c # d
         /\ IsAdd(calls[c]) /\ IsAdd(calls[d])
         /\ calls[c].args = calls[d].args
         /\ calls[c].args.ignore_duplicates
         /\ Accepted(calls[c])
         /\ HasFetched(calls[d])
         /\ calls[d].requests[1].time > Submissions(calls[c])[1].time
         /\ FetchedRevision(calls[d]) = FetchedRevision(calls[c]) + 1) =>
            /\ calls[d].data # NoneType
            /\ json_loads(calls[d].data.diff)[1].tracks = <<>>

\* C8: the diff an add_tracks_to_playlist call builds, serialized and
\* deserialized, is an insert at the caller's position (0 when omitted)
\* whose (id, album id) pairs stand in the relative order of the caller's
\* track list, with ignore_duplicates and without.
C8_InsertDiffRoundTrip ==
    \A c \in CallIds :
        (IsAdd(calls[c]) /\ calls[c].data # NoneType) =>
            LET op == json_loads(calls[c].data.diff)[1] IN
            /\ op.op = "insert"
            /\ op.at = Default(calls[c].args.at_position, 0)
            /\ IsSubsequence(op.tracks, CallerPairs(calls[c].args.tracks))

IsRemove(call) == call.op = "remove_tracks_from_playlist_by_id"

\* C9: when to_track is omitted, the delete operation built for a playlist
\* of n tracks carries to = n - 1, and from = the start index the caller
\* gave.
C9_DeleteThroughTheEnd ==
    \A c \in CallIds :
        (/\ IsRemove(calls[c])
         /\ calls[c].args.to_track = NoneInt
         /\ calls[c].data # NoneType) =>
            LET op == json_loads(calls[c].data.diff)[1]
                n == Len(calls[c].requests[1].response.playlist.tracks)
            IN /\ op.op = "delete"
               /\ op.to = n - 1
               /\ calls[c].args.from_track # NoneInt => op.from = calls[c].args.from_track

\* a playlist of eleven tracks, a start index given and the end left out
C9_Witness ==
    \E c \in CallIds :
        /\ IsRemove(calls[c])
        /\ calls[c].args.to_track = NoneInt
        /\ calls[c].args.from_track = 1
        /\ calls[c].data # NoneType
        /\ Len(calls[c].playlist.tracks) = 11
        /\ json_loads(calls[c].data.diff)[1] = [op |-> "delete", from |-> 1, to |-> 10]

\* C10: every playlist that get_playlists returns has tracks None, and the
\* playlist that get_playlist returns, or that a mutation fetches, has a
\* list of tracks, which may be empty.
C10_TracksNoneExactlyWhenListed ==
    \A c \in CallIds :
        /\ (calls[c].op = "get_playlists" /\ calls[c].result # NoneType) =>
              \A i \in 1..Len(calls[c].result.items) :
                  calls[c].result.items[i].tracks = NoneType
        /\ (calls[c].op = "get_playlist" /\ calls[c].result # NoneType) =>
              /\ calls[c].result.tracks # NoneType
              /\ calls[c].result.tracks.type = "list"
        /\ (calls[c].op \in Mutations /\ calls[c].playlist # NoneType) =>
              calls[c].playlist.tracks # NoneType

\* one call listed a playlist and another fetched the same playlist, empty
C10_Witness ==
    \E c, d \in CallIds :
        /\ calls[c].op = "get_playlists" /\ calls[c].result # NoneType
        /\ Len(calls[c].result.items) >= 1
        /\ calls[c].result.items[1].tracks = NoneType
        /\ calls[d].op = "get_playlist" /\ calls[d].result # NoneType
        /\ calls[d].result.kind = calls[c].result.items[1].kind
        /\ calls[d].result.tracks = ListOf(<<>>)
\* C11: the playlist that get_playlist returns when rich tracks are asked
\* for holds, for every track reference of the answer, the full track of
\* that reference: each reference it was built from has is_rich.
C11_RichPlaylistHoldsFullTracks ==
    \A c \in CallIds :
        (/\ calls[c].op = "get_playlist"
         /\ calls[c].pc = "done"
         /\ calls[c].exc = "none"
         /\ calls[c].args.rich_tracks) =>
            LET refs == calls[c].playlist.tracks.items
                tracks == calls[c].result.tracks.items
            IN /\ Len(tracks) = Len(calls[c].args.payload.tracks)
               /\ \A i \in 1..Len(tracks) :
                     /\ is_rich(refs[i])
                     /\ tracks[i].type = "Track"
                     /\ tracks[i] = ParseTrack(calls[c].args.payload.tracks[i].track)

\* a playlist of two rich references was returned
C11_Witness ==
    \E c \in CallIds :
        /\ calls[c].op = "get_playlist"
        /\ calls[c].exc = "none"
        /\ calls[c].args.rich_tracks
        /\ calls[c].result # NoneType
        /\ Len(calls[c].result.tracks.items) = 2
        /\ calls[c].result.tracks.items[1].id # calls[c].result.tracks.items[2].id

\* C14: the playlist that get_playlist returns has the field values it was
\* constructed with by decoding.
C14_EntitiesKeepTheirFields ==
    \A c \in CallIds :
        (/\ calls[c].op = "get_playlist"
         /\ calls[c].pc = "done"
         /\ calls[c].exc = "none") => calls[c].result = calls[c].playlist
IsTrackDecode(call) == call.op = "Track.album_id" /\ call.pc = "done"

\* C12: for every decoded Track of at least one album, album_id is the id
\* of the first of its albums.
C12_AlbumIdIsFirstAlbum ==
    \A c \in CallIds :
        (/\ IsTrackDecode(calls[c])
         /\ calls[c].playlist # NoneType
         /\ Len(calls[c].playlist.albums) >= 1) =>
            /\ calls[c].exc = "none"
            /\ calls[c].result.album_id = calls[c].args.payload.albums[1].id

\* a track of two different albums
C12_Witness ==
    \E c \in CallIds :
        /\ IsTrackDecode(calls[c])
        /\ calls[c].exc = "none"
        /\ Len(calls[c].args.payload.albums) = 2
        /\ calls[c].args.payload.albums[1].id # calls[c].args.payload.albums[2].id
        /\ calls[c].result.album_id = calls[c].args.payload.albums[1].id

\* C13: decoding a Track payload whose albums are empty fails at the
\* decode, and no Track without an album is constructed.
C13_EmptyAlbumsFailTheDecode ==
    \A c \in CallIds :
        (/\ IsTrackDecode(calls[c])
         /\ "albums" \in DOMAIN calls[c].args.payload
         /\ calls[c].args.payload.albums = <<>>) =>
            /\ calls[c].playlist = NoneType
            /\ calls[c].exc \in {"ValidationError", "ResponseFormatError"}
IsLoad(call) == call.op = "load" /\ call.pc = "done"

\* the payload is an object that does not hold the key
Lacks(data, key) == data.json = "object" /\ key \notin DOMAIN data.fields

C16_CollectionKeyOnlyForMany ==
    \A c \in CallIds :
        (IsLoad(calls[c]) /\ ~calls[c].args.schema.many) =>
            LET single == load([calls[c].args.schema EXCEPT !.envelope.many = NoneStr],
                               calls[c].args.payload)
            IN /\ calls[c].exc = single.exc
               /\ single.exc = "none" => calls[c].result = single.value
IsModel(call) == call.op = "Model" /\ call.pc = "done"

\* C17: decoding a payload that lacks a property declared required fails
\* with ModelError.
C17_MissingRequiredFails ==
    \A c \in CallIds :
        (/\ IsModel(calls[c])
         /\ calls[c].args.property.required
         /\ "value" \notin DOMAIN calls[c].args.kwrags) =>
            calls[c].exc = "ModelError"

\* C18: a payload that holds null for a property declared nullable decodes,
\* and the property takes its declared default.
C18_NullTakesTheDefault ==
    \A c \in CallIds :
        (/\ IsModel(calls[c])
         /\ calls[c].args.property.nullable
         /\ "value" \in DOMAIN calls[c].args.kwrags
         /\ calls[c].args.kwrags.value = JNull) =>
            /\ calls[c].exc = "none"
            /\ calls[c].result.attrs.value = calls[c].args.property.default
IsSearch(call) ==
    call.op \in {"search", "SearchResultSchema.load", "yamusic.search"} /\ call.pc = "done"

\* the ids of the entities a search decoded for a category, in order
DecodedIds(call, category) ==
    IF call.op = "yamusic.search"
    THEN LET items == call.result.attrs[category].attrs.items.items IN
         [i \in 1..Len(items) |->
             IF category = "playlists" THEN items[i].attrs.kind.n ELSE items[i].attrs.id.n]
    ELSE [i \in 1..Len(call.result[category].items) |-> call.result[category].items[i].id]

\* C20: the decode of a search answer does not fail, and gives for each of
\* the four categories the items of that category's part of the answer, none
\* when the part is absent, whatever the other parts hold.
C20_AbsentCategoryIsEmpty ==
    \A c \in CallIds :
        IsSearch(calls[c]) =>
            /\ calls[c].exc = "none"
            /\ \A category \in Categories :
                   DecodedIds(calls[c], category) = calls[c].args.found[category].ids
\* the items of a list answer, bare or under the collection key, and the id
\* of an item, bare or under the singular key
ListItems(payload) ==
    IF payload.json = "array" THEN payload.items ELSE payload.fields.result.items

ItemId(item) ==
    IF "id" \in DOMAIN item.fields THEN item.fields.id ELSE item.fields.track.fields.id

\* C19: a list of n well-formed elements decodes to n entities in the order
\* of the payload: at the top level of a load, for the tracks of a playlist
\* and for the categories of a search answer.
C19_ListDecodeKeepsOrder ==
    \A c \in CallIds :
        /\ (IsLoad(calls[c]) /\ calls[c].args.schema.many /\ calls[c].exc = "none") =>
               LET items == ListItems(calls[c].args.payload) IN
               /\ Len(calls[c].result.items) = Len(items)
               /\ \A i \in 1..Len(items) : calls[c].result.items[i].id = ItemId(items[i])
        /\ (calls[c].op = "get_playlist" /\ calls[c].pc = "done" /\ calls[c].exc = "none") =>
               /\ Len(calls[c].result.tracks.items) = Len(calls[c].args.payload.tracks)
               /\ \A i \in 1..Len(calls[c].args.payload.tracks) :
                      calls[c].result.tracks.items[i].id = calls[c].args.payload.tracks[i].id
        /\ (IsSearch(calls[c]) /\ calls[c].exc = "none") =>
               \A category \in Categories :
                   DecodedIds(calls[c], category) = calls[c].args.found[category].ids

\* a list answer of two different items under the collection key, decoded
\* to the two entities in that order
C19_Witness ==
    \E c \in CallIds :
        /\ IsLoad(calls[c])
        /\ calls[c].args.schema = BaseSchema("Genre", NoneStr, "result", TRUE)
        /\ calls[c].args.payload =
               Wrapped("result", JArray(<<JObject([id |-> 2]), JObject([id |-> 1])>>))
        /\ calls[c].exc = "none"
        /\ calls[c].result =
               ListOf(<<[type |-> "Genre", id |-> 2], [type |-> "Genre", id |-> 1]>>)
IsCompare(call) == call.op = "__eq__" /\ call.pc = "done"

\* C21: two track references are equal exactly when their id and their
\* album id are equal, with or without an embedded track and whatever it
\* holds.
C21_ReferenceEqualityByIdAndAlbum ==
    \A c \in CallIds :
        (IsCompare(calls[c]) /\ calls[c].args.a.type = "TrackWrapper") =>
            (calls[c].result.eq <=>
                (/\ calls[c].args.a.id = calls[c].args.b.id
                 /\ calls[c].args.a.album_id = calls[c].args.b.album_id))

\* a rich reference and one without its track, equal by id and album id
C21_Witness ==
    \E c \in CallIds :
        /\ IsCompare(calls[c])
        /\ calls[c].args.a = TrackWrapper(1, 1, Track(2, <<2, 1>>))
        /\ calls[c].args.b = TrackWrapper(1, 1, NoneType)
        /\ calls[c].result.eq

\* C22: two playlists are equal exactly when their kind and their owner are
\* equal.
C22_PlaylistEqualityByKindAndOwner ==
    \A c \in CallIds :
        (IsCompare(calls[c]) /\ calls[c].args.a.type \in {"Playlist", "entities.Playlist"}) =>
            (calls[c].result.eq <=>
                (/\ calls[c].args.a.kind = calls[c].args.b.kind
                 /\ calls[c].args.a.owner = calls[c].args.b.owner))
IsLookup(call) ==
    /\ call.op \in {"get_playlist", "yamusic.get_playlist"}
    /\ call.pc = "done"
    /\ "title" \in DOMAIN call.args

\* the playlists that the answer to the call's first request lists
Listed(call) ==
    IF call.op = "yamusic.get_playlist" THEN call.requests[1].response.playlists
    ELSE call.requests[1].response.result

\* the list of playlists was answered, and no playlist of it has the title
NoneOfTitle(call) ==
    /\ call.requests # <<>>
    /\ call.requests[1].status = 200
    /\ \A i \in 1..Len(Listed(call)) : Listed(call)[i].title # call.args.title

\* C23: a lookup by title whose list of playlists holds none of that title
\* raises NotFoundError, and has sent the request for the list and no other.
C23_NoMatchRaisesNotFound ==
    \A c \in CallIds :
        (IsLookup(calls[c]) /\ NoneOfTitle(calls[c])) =>
            /\ calls[c].exc = "NotFoundError"
            /\ Len(calls[c].requests) = 1

\* the user has a playlist, of another title than the one looked up
C23_Witness ==
    \E c \in CallIds :
        /\ IsLookup(calls[c])
        /\ calls[c].op = "get_playlist"
        /\ NoneOfTitle(calls[c])
        /\ Len(Listed(calls[c])) > 0
        /\ calls[c].exc = "NotFoundError"
\* C24: with both indices given and 0 <= from <= to < number of tracks, the
\* delete operation built carries from and to as given.
C24_DeleteCarriesBothIndices ==
    \A c \in CallIds :
        (/\ IsRemove(calls[c])
         /\ calls[c].data # NoneType
         /\ calls[c].args.from_track # NoneInt
         /\ calls[c].args.to_track # NoneInt
         /\ 0 <= calls[c].args.from_track
         /\ calls[c].args.from_track <= calls[c].args.to_track
         /\ calls[c].args.to_track < Len(calls[c].playlist.tracks)) =>
            json_loads(calls[c].data.diff)[1] =
                [op |-> "delete", from |-> calls[c].args.from_track,
                 to |-> calls[c].args.to_track]
\* the fetch of the call's playlist was refused
FetchFailed(call) ==
    /\ Fetches(call) # <<>>
    /\ Fetches(call)[1].status # 200

\* the caller gave a track that has no album
HasTrackWithoutAlbum(call) ==
    /\ call.op = "add_tracks_to_playlist"
    /\ \E i \in 1..Len(call.args.tracks) :
           /\ call.args.tracks[i].type = "Track"
           /\ call.args.tracks[i].albums = <<>>

FailsBeforeSubmission(call) ==
    /\ call.op \in Mutations
    /\ FetchFailed(call) \/ HasTrackWithoutAlbum(call)

\* C25: a mutation whose fetch fails, or whose diff cannot be built, ends
\* with the error and sends no change.
C25_FailedMutationSendsNothing ==
    \A c \in CallIds :
        FailsBeforeSubmission(calls[c]) =>
            /\ calls[c].pc = "done"
            /\ calls[c].exc # "none"
            /\ Submissions(calls[c]) = <<>>

\* a track without album for a playlist that was fetched
C25_Witness ==
    \E c \in CallIds :
        /\ HasTrackWithoutAlbum(calls[c])
        /\ HasFetched(calls[c])
        /\ calls[c].exc = "IndexError"
        /\ Submissions(calls[c]) = <<>>
\* C26: a get_playlists call with an explicit user id sends its request
\* whatever the client's credentials, after logout too, and the request
\* carries the Authorization header exactly when the client holds
\* credentials.
C26_UnauthenticatedRequestsGoOut ==
    [][\A c \in CallIds :
          (/\ calls[c].pc = "idle"
           /\ calls'[c].op = "get_playlists"
           /\ calls'[c].args.user_id \in UserIds) =>
              /\ Len(calls'[c].requests) = 1
              /\ (calls'[c].requests[1].authorization # NoneInt) <=>
                     HoldsCredentials(oauth_cred)]_vars

IsAuth(call) == call.op = "auth" /\ call.pc = "done"

\* the token response was delivered and lacks access_token, or lacks uid, or
\* its uid is not numeric
MalformedTokenResponse(call) ==
    /\ call.requests # <<>>
    /\ call.requests[1].status = 200
    /\ \/ "access_token" \notin DOMAIN call.requests[1].response
       \/ "uid" \notin DOMAIN call.requests[1].response
       \/ ~call.requests[1].response.uid.numeric

\* C27: auth raises ResponseFormatError for every malformed token response.
C27_MalformedTokenIsFormatError ==
    \A c \in CallIds :
        (IsAuth(calls[c]) /\ MalformedTokenResponse(calls[c])) =>
            calls[c].exc = "ResponseFormatError"

\* C28: an auth that fails leaves the client's credentials and login as
\* they were.
C28_FailedAuthKeepsCredentials ==
    [][\A c \in CallIds :
          (calls[c].pc = "idle" /\ calls'[c].op = "auth" /\ calls'[c].exc # "none") =>
              /\ oauth_cred' = oauth_cred
              /\ login' = login]_vars

\* a client authenticated as user 1 whose auth as another user was refused
C28_Witness ==
    /\ IsAuth(calls[1])
    /\ calls[1].exc = "AuthenticationError"
    /\ calls[1].args.login = Login(2)
    /\ calls[2].pc = "idle"
    /\ oauth_cred = OAuthCred(Token(1), 1)
    /\ login = Login(1)
\* C29: with ignore_duplicates, the insert a call builds and submits holds
\* each track at most once, however often the caller's list holds it.
C29_CallerDuplicatesInsertedOnce ==
    \A c \in CallIds :
        (IsAdd(calls[c]) /\ calls[c].args.ignore_duplicates /\ calls[c].data # NoneType) =>
            LET entries == json_loads(calls[c].data.diff)[1].tracks IN
            \A i, j \in 1..Len(entries) : i # j => entries[i].id # entries[j].id

\* the caller gave the same track twice, and the insert sent holds it once
C29_Witness ==
    \E c \in CallIds :
        /\ IsAdd(calls[c])
        /\ calls[c].args.ignore_duplicates
        /\ calls[c].args.tracks = <<Track(1, <<1>>), Track(1, <<1>>)>>
        /\ Accepted(calls[c])
        /\ json_loads(Submissions(calls[c])[1].data.diff)[1].tracks = <<[id |-> 1, albumid |-> 1]>>
\* the (name, value) entries of an instance, one per declared property
OwnEntries(call) ==
    LET names == get_properties([name |-> call.args.cls]) IN
    [i \in 1..Len(names) |-> [name |-> names[i], value |-> call.result.attrs[names[i]]]]

\* C30: the list that the __repr__ of a constructed instance reads holds the
\* instance's own entries, one per declared property, and nothing else.
C30_AttrsHoldOwnEntriesOnly ==
    \A c \in CallIds :
        (calls[c].op = "Model.__init__" /\ calls[c].exc = "none") =>
            __attrs__(calls[c].args.cls, 1) = OwnEntries(calls[c])

====
